---------------------------- MODULE Spec2Model ----------------------------
(***************************************************************************)
(* Thorlabs motion control: the controller sessions (connection / motion   *)
(* state machine of the Kinesis and APT controller classes, the handle a   *)
(* 4-channel device shares between its channel sessions) and the           *)
(* configuration store (devices.json, the GUI's cached copy, stage         *)
(* auto-detection).                                                        *)
(***************************************************************************)
EXTENDS Integers, Sequences, FiniteSets, Bags, TLC

(***************************************************************************)
(* Bounds of the model.                                                    *)
(***************************************************************************)
\* channel sessions modelled for one device (KIM101 has 4; the others 1)
NumChannels == 2
\* backend handle objects alive at one time
MaxHandles == 1
\* positions the stage can take: 0..MaxPos (a target outside is refused)
MaxPos == 2
\* caller-supplied timeouts, in poll-loop sleeps of 0.1 s: 0..MaxTimeout
MaxTimeout == 1

\* Python's None / JSON null
Null == "null"

(***************************************************************************)
(* Controller variants and states.                                         *)
(***************************************************************************)
Variants == {"KDC101", "KIM101", "KPZ101", "APTMotor", "APTPiezo"}

States == {"disconnected", "connecting", "connected", "homing", "moving", "error"}

IsKinesis(v) == v \in {"KDC101", "KIM101", "KPZ101"}

IsPiezo(v) == v \in {"KPZ101", "APTPiezo"}

HasStop(v) == v \in {"KDC101", "KIM101", "APTMotor"}

\* the sessions of a device of variant v: one per channel
Sess(v) == IF v = "KIM101" THEN 1..NumChannels ELSE {1}

Sessions == 1..NumChannels

Handles == 1..MaxHandles

VARIABLES
    variant,    \* the controller class of the device under test
    state,      \* state[s]: ControllerState of session s
    device,     \* device[s]: the session's backend handle (_device/_motor/_piezo), 0 = None
    isInit,     \* isInit[s]: _is_initialized (Kinesis assemblies loaded)
    hOpen,      \* hOpen[h]: handle h is connected to the hardware
    hCreator,   \* hCreator[h]: the session whose connect() created handle h last (0: none)
    pos,        \* pos[c]: hardware position of channel c
    moving,     \* moving[c]: "none", "moving" or "homing": the backend's status flag
    tgt,        \* tgt[c]: where the motion in flight on channel c ends
    pc,         \* pc[s]: where the call in flight of session s is ("idle": none)
    cur,        \* cur[s]: the arguments of the call in flight
    elapsed,    \* elapsed[s]: sleeps of the poll loop so far
    stepCount,  \* stepCount[s]: _step_count of an inertial session
    stageConfig,\* stageConfig[s]: the stage bound to an inertial session (_stage_config)
    notified,   \* notified[s]: the states the last step delivered to the state observer of s
    ev          \* the operation step that produced this state, and its outcome

sessVars == <<variant, state, device, isInit, hOpen, hCreator, pos, moving, tgt,
              pc, cur, elapsed, stepCount, stageConfig, notified, ev>>

VARIABLES
    disk,       \* devices.json: [kind, doc], kind "absent", "valid", "truncated" or
                \* "undecodable"; doc: its text
    gui,        \* the GUI's device list, a dict in list order: gui.at[serial] =
                \* DeviceInfo.config of that device
    connected,  \* serials the GUI holds a connected controller for
    pending,    \* the GUI handlers that are under way, the innermost last: connect
                \* requests (in processEvents(), then in connect()), open
                \* configuration dialogs and the open context menu (in exec_()).
                \* Of each the serial and the DeviceInfo it holds (old = 0: the
                \* one in the device list; old > 0: one a rebuild of the list has
                \* dropped, with the entry it keeps); of a dialog whether its
                \* copy of the config is a dict of its own; of the menu whether
                \* it offers Disconnect (ctl: the DeviceInfo has a controller)
    listing,    \* the discover_devices_with_stages() calls that are under way:
                \* of each the list discover_devices() gave it, how its stage
                \* queries ended so far, and the device being queried (cur, 0:
                \* none) with the sleep that query is in (phase)
    probing,    \* the get_connected_stage_info() calls that are asleep with the probe
                \* handle connected: of each its arguments, what the backend does
                \* to it, and the sleep it is in (phase)
    written,    \* the document handed to the last save_device_config call
    nops,       \* operations run so far
    sev         \* the store operation that produced this state, and its outcome

storeVars == <<disk, gui, connected, pending, listing, probing, written, nops, sev>>

VARIABLES
    piezo       \* a piezo session looked at on its own: its class, the voltage range of
                \* the stage bound to it, its clamp range, its handle, the last call

vars == <<sessVars, storeVars, piezo>>

\* no piezo session has been created
NoPiezo == [cls |-> "null", bound |-> 0, vmax |-> 0, dev |-> FALSE, busy |-> 0,
            op |-> "none", res |-> "None", sent |-> 0]

\* what a get_position() call gives: the float it returns, or the exception
\* it raises
Reading(v) == [res |-> "float", value |-> v]

ReadRaises == [res |-> "BackendError", value |-> 0]

NoCall == [op |-> "none", wait |-> FALSE, timeout |-> 0, arg |-> 0, goal |-> Reading(0)]

\* an event: the step of operation op of session s that produced this state.
\* res: what the call returned or raised ("pending": the call goes on);
\* note: what happened inside ("teardown_failed", "timeout", ...);
\* wait: the wait argument of a motion call; reached: get_position() at the
\* end of a motion call equals get_position() before it plus the distance.
Event(op, s, res, note) ==
    [op |-> op, s |-> s, res |-> res, note |-> note, wait |-> FALSE, reached |-> FALSE]

MoveEvent(op, s, res, note, wait, reached) ==
    [op |-> op, s |-> s, res |-> res, note |-> note, wait |-> wait, reached |-> reached]

\* the event of a call on an inertial session.  steps: the signed number of
\* steps the call set out to move; sent: the signed number of steps (for
\* jog: of jog increments) of the command the backend was given, 0 if none.
StepEvent(op, s, res, note, wait, reached, steps, sent) ==
    [op |-> op, s |-> s, res |-> res, note |-> note, wait |-> wait, reached |-> reached,
     steps |-> steps, sent |-> sent]

\* MotorController.is_connected / PiezoController.is_connected
IsConnected(v, st) ==
    IF IsPiezo(v) THEN st # "disconnected"
    ELSE st \in {"connected", "homing", "moving"}

\* _set_state: update the state field (the observer is notified inline)
SetState(st, s, new) == [st EXCEPT ![s] = new]

\* no call of any state observer
NoDelivery == [x \in Sessions |-> <<>>]

\* _set_state, second half: the observer registered on session s is called
\* with the new state (st: the state field before the update)
Notify(st, s, new) == [NoDelivery EXCEPT ![s] = <<new>>]

\* stages an inertial session may be bound to (None: no stage)
InertialStages == {Null, "PIA13"}

\* step_size, in nanometres: 0.00002 mm, the "step_size" of every inertial
\* stage of stages.py and the default of InertialController
StepSize == 20

\* distances, in nanometres, an inertial session is asked to move by (140:
\* seven step sizes as decimals, a float quotient below 7)
InertialDistances == {-50, 140}

\* positions it is asked to move to
InertialPositions == {0, 40}

\* step counts move_by is called with
InertialStepArgs == {-1, 2}

\* InertialController.get_position: the step counter times the step size
\* when a stage is bound, the raw counter otherwise
InertialPosition(count, stage) == IF stage # Null THEN count * StepSize ELSE count

\* get_position() of session s holding handle dev[s], ho telling the open
\* handles, when the hardware is at p; readOk: the backend's position read
\* does not fail on an open handle.  Inertial: computed from the step
\* counter, no backend read.  Without a handle: 0.0.  Servo and APT motor:
\* the backend read is not guarded, its exception goes to the caller.
\* Piezo: a failing read is absorbed and 0.0 returned.
PositionOf(dev, ho, p, s, readOk) ==
    IF variant = "KIM101" THEN Reading(InertialPosition(stepCount[s], stageConfig[s]))
    ELSE IF dev[s] = 0 THEN Reading(0)
    ELSE IF ho[dev[s]] /\ readOk THEN Reading(p[s])
    ELSE IF IsPiezo(variant) THEN Reading(0)
    ELSE ReadRaises

\* get_position() of session s in the current state
GetPosition(s, readOk) == PositionOf(device, hOpen, pos, s, readOk)

\* _set_state(new_state) on session s: the field is updated, then the
\* observer is called
SetStateNotify(s, new) ==
    /\ state' = SetState(state, s, new)
    /\ notified' = Notify(state, s, new)

SessInit ==
    /\ variant \in Variants
    /\ piezo = NoPiezo
    /\ state = [s \in Sessions |-> "disconnected"]
    /\ device = [s \in Sessions |-> 0]
    /\ isInit = [s \in Sessions |-> FALSE]
    /\ hOpen = [h \in Handles |-> FALSE]
    /\ hCreator = [h \in Handles |-> 0]
    /\ pos = [c \in Sessions |-> 0]
    /\ moving = [c \in Sessions |-> "none"]
    /\ tgt = [c \in Sessions |-> 0]
    /\ pc = [s \in Sessions |-> "idle"]
    /\ cur = [s \in Sessions |-> NoCall]
    /\ elapsed = [s \in Sessions |-> 0]
    /\ stepCount = [s \in Sessions |-> 0]
    /\ notified = NoDelivery
    /\ stageConfig \in [Sessions -> IF variant = "KIM101" THEN InertialStages ELSE {Null}]
    /\ ev = Event("init", 0, "None", "")


(***************************************************************************)
(* connect()                                                               *)
(***************************************************************************)
\* handle objects that can be created: those no session holds and that are
\* not connected to the hardware
FreeHandles == {h \in Handles : ~hOpen[h] /\ \A s \in Sessions : device[s] # h}

NewHandle == CHOOSE h \in FreeHandles : \A g \in FreeHandles : h <= g

\* how a connect attempt can end: "early": BuildDeviceList or the adapter's
\* constructor raised; "notfound": Create... returned None (Kinesis);
\* "initfail_closed": Connect / start raised, the handle is not open;
\* "initfail_open": a call after the handle was opened raised; "handle_lost":
\* another context's disconnect() set the handle to None while connect()
\* was running; "ok"
ConnectOutcomes(v) ==
    IF IsKinesis(v)
    THEN {"early", "notfound", "initfail_closed", "initfail_open", "handle_lost", "ok"}
    ELSE {"early", "initfail_closed", "initfail_open", "handle_lost", "ok"}

\* connect() ends in its except clause: _set_state(ERROR), raise ConnectionError
ConnectFails(s, out) ==
    /\ SetStateNotify(s, "error")
    /\ pc' = [pc EXCEPT ![s] = "idle"]
    /\ ev' = Event("connect", s, "ConnectionError", out)

\* connect(), up to _set_state(CONNECTING).  A Kinesis class first loads its
\* assemblies (outside the try block: a failure raises ConnectionError and
\* touches no state) and imports the device classes (inside the try block,
\* before CONNECTING: a failure goes to the except clause).
ConnectBegin(s) ==
    /\ s \in Sess(variant)
    /\ pc[s] = "idle"
    /\ Cardinality(FreeHandles) > Cardinality({x \in Sessions : pc[x] = "connecting"})
    /\ \E load \in {"ok", "load_fails", "import_fails"} :
          /\ load = "load_fails" => IsKinesis(variant) /\ ~isInit[s]
          /\ load = "import_fails" => IsKinesis(variant)
          /\ CASE load = "load_fails" ->
                    /\ ev' = Event("connect", s, "ConnectionError", "load_failed")
                    /\ notified' = NoDelivery /\ UNCHANGED <<state, isInit, pc>>
               [] load = "import_fails" ->
                    /\ isInit' = [isInit EXCEPT ![s] = TRUE]
                    /\ SetStateNotify(s, "error")
                    /\ ev' = Event("connect", s, "ConnectionError", "import_failed")
                    /\ UNCHANGED pc
               [] OTHER ->
                    /\ isInit' = [isInit EXCEPT ![s] = IF IsKinesis(variant) THEN TRUE ELSE @]
                    /\ SetStateNotify(s, "connecting")
                    /\ pc' = [pc EXCEPT ![s] = "connecting"]
                    /\ ev' = Event("connect", s, "pending", "")
    /\ UNCHANGED <<variant, device, hOpen, hCreator, pos, moving, tgt, cur, elapsed, stepCount, stageConfig, storeVars, piezo>>

\* connect(), from BuildDeviceList / the adapter's constructor to the
\* assignment of the handle it creates to self._device / _motor / _piezo
ConnectCreate(s) ==
    /\ s \in Sess(variant)
    /\ pc[s] = "connecting"
    /\ \E out \in {"early", "notfound", "created"} :
          /\ out = "notfound" => IsKinesis(variant)
          /\ CASE out = "early" ->
                    /\ ConnectFails(s, out)
                    /\ UNCHANGED <<device, hCreator>>
               [] out = "notfound" ->
                    /\ ConnectFails(s, out)
                    /\ device' = [device EXCEPT ![s] = 0]
                    /\ UNCHANGED hCreator
               [] OTHER ->
                    /\ device' = [device EXCEPT ![s] = NewHandle]
                    /\ hCreator' = [hCreator EXCEPT ![NewHandle] = s]
                    /\ pc' = [pc EXCEPT ![s] = "created"]
                    /\ ev' = Event("connect", s, "pending", "created")
                    /\ notified' = NoDelivery /\ UNCHANGED state
    /\ UNCHANGED <<variant, isInit, hOpen, pos, moving, tgt, cur, elapsed, stepCount, stageConfig, storeVars, piezo>>

\* connect(), the calls that open the handle.  Kinesis: Connect,
\* WaitForSettingsInitialized, StartPolling, and the call is in its first
\* time.sleep(0.5) afterwards; APT: start(), then _set_state(CONNECTED) and
\* the return.  The handle is read from the session's field at each call:
\* a disconnect() from another context has left None there.
ConnectOpen(s) ==
    /\ s \in Sess(variant)
    /\ pc[s] = "created"
    /\ IF device[s] = 0
       THEN ConnectFails(s, "handle_lost") /\ UNCHANGED hOpen
       ELSE \E out \in {"initfail_closed", "initfail_open", "opened"} :
               /\ hOpen' = [hOpen EXCEPT ![device[s]] = (out # "initfail_closed")]
               /\ IF out # "opened" THEN ConnectFails(s, out)
                  ELSE IF IsKinesis(variant)
                  THEN /\ pc' = [pc EXCEPT ![s] = "settling"]
                       /\ ev' = Event("connect", s, "pending", "opened")
                       /\ notified' = NoDelivery /\ UNCHANGED state
                  ELSE /\ SetStateNotify(s, "connected")
                       /\ pc' = [pc EXCEPT ![s] = "idle"]
                       /\ ev' = Event("connect", s, "True", "ok")
    /\ UNCHANGED <<variant, device, isInit, hCreator, pos, moving, tgt, cur, elapsed, stepCount, stageConfig, storeVars, piezo>>

\* connect() of a servo or inertial Kinesis class, from the end of its first
\* sleep: EnableDevice, and the call is in its second time.sleep afterwards
ConnectEnable(s) ==
    /\ s \in Sess(variant)
    /\ pc[s] = "settling"
    /\ variant \in {"KDC101", "KIM101"}
    /\ IF device[s] = 0
       THEN ConnectFails(s, "handle_lost")
       ELSE \E out \in {"initfail_open", "enabled"} :
               /\ ~hOpen[device[s]] => out = "initfail_open"
               /\ IF out = "enabled"
                  THEN /\ pc' = [pc EXCEPT ![s] = "enabled"]
                       /\ ev' = Event("connect", s, "pending", "enabled")
                       /\ notified' = NoDelivery /\ UNCHANGED state
                  ELSE ConnectFails(s, out)
    /\ UNCHANGED <<variant, device, isInit, hOpen, hCreator, pos, moving, tgt, cur, elapsed, stepCount, stageConfig, storeVars, piezo>>

\* connect() of a Kinesis class, from the end of its last sleep to its
\* return.  Servo: LoadMotorConfiguration, piezo: GetMaxOutputVoltage, called
\* on the handle the session's field holds then; inertial: no backend call.
\* Then _set_state(CONNECTED) and True is returned: by the inertial class
\* also when a disconnect() from another context has cleared the handle
ConnectReturn(s) ==
    /\ s \in Sess(variant)
    /\ pc[s] = IF variant = "KPZ101" THEN "settling" ELSE "enabled"
    /\ IF variant = "KIM101"
       THEN /\ SetStateNotify(s, "connected")
            /\ pc' = [pc EXCEPT ![s] = "idle"]
            /\ ev' = Event("connect", s, "True", "ok")
       ELSE IF device[s] = 0
       THEN ConnectFails(s, "handle_lost")
       ELSE \E out \in {"initfail_open", "ok"} :
               /\ ~hOpen[device[s]] => out = "initfail_open"
               /\ IF out = "ok"
                  THEN /\ SetStateNotify(s, "connected")
                       /\ pc' = [pc EXCEPT ![s] = "idle"]
                       /\ ev' = Event("connect", s, "True", "ok")
                  ELSE ConnectFails(s, out)
    /\ UNCHANGED <<variant, device, isInit, hOpen, hCreator, pos, moving, tgt, cur, elapsed, stepCount, stageConfig, storeVars, piezo>>

(***************************************************************************)
(* The GUI's attachment of channels 2.. of a multi-channel device to       *)
(* channel 1's handle.                                                     *)
(***************************************************************************)
Attach(s) ==
    /\ variant = "KIM101"
    /\ s \in Sess(variant) \ {1}
    /\ pc[s] = "idle" /\ pc[1] = "idle"
    /\ state[s] = "disconnected" /\ device[s] = 0
    /\ state[1] = "connected" /\ device[1] # 0
    /\ hCreator[device[1]] = 1 /\ hOpen[device[1]]
    /\ device' = [device EXCEPT ![s] = device[1]]
    /\ isInit' = [isInit EXCEPT ![s] = TRUE]
    /\ SetStateNotify(s, state[1])
    /\ ev' = Event("attach", s, "None", "")
    /\ UNCHANGED <<variant, hOpen, hCreator, pos, moving, tgt, pc, cur, elapsed, stepCount, stageConfig, storeVars, piezo>>

(***************************************************************************)
(* disconnect()                                                            *)
(***************************************************************************)
\* The teardown calls on handle h: StopPolling then Disconnect (Kinesis),
\* stop_ctrl (APT).  closes = FALSE: a teardown call raised before the
\* handle was closed.
Teardown(ho, h, closes) == IF closes THEN [ho EXCEPT ![h] = FALSE] ELSE ho

\* a disconnect() whose teardown calls are not guarded: a failing teardown
\* call propagates, the handle and the state stay as they were
DisconnectUnguarded(s) ==
    /\ s \in Sess(variant)
    /\ IF device[s] # 0
       THEN \E closes \in BOOLEAN :
               /\ hOpen' = Teardown(hOpen, device[s], closes)
               /\ ev' = Event("disconnect", s, IF closes THEN "None" ELSE "Exception",
                              IF closes THEN "closed" ELSE "teardown_failed")
               /\ device' = IF closes THEN [device EXCEPT ![s] = 0] ELSE device
               /\ IF closes THEN SetStateNotify(s, "disconnected")
                  ELSE notified' = NoDelivery /\ UNCHANGED state
       ELSE /\ UNCHANGED hOpen
            /\ ev' = Event("disconnect", s, "None", "no_handle")
            /\ device' = [device EXCEPT ![s] = 0]
            /\ SetStateNotify(s, "disconnected")
    /\ UNCHANGED <<variant, isInit, hCreator, pos, moving, tgt, pc, cur, elapsed, stepCount, stageConfig, storeVars, piezo>>

\* a disconnect() that marks every session holding the closed handle as
\* Disconnected
DisconnectSharers(s) ==
    /\ s \in Sess(variant)
    /\ IF device[s] # 0
       THEN \E closes \in BOOLEAN :
               /\ hOpen' = Teardown(hOpen, device[s], closes)
               /\ ev' = Event("disconnect", s, "None", IF closes THEN "closed" ELSE "teardown_failed")
       ELSE /\ UNCHANGED hOpen
            /\ ev' = Event("disconnect", s, "None", "no_handle")
    /\ device' = [device EXCEPT ![s] = 0]
    /\ state' = [t \in Sessions |->
                    IF t = s \/ (device[s] # 0 /\ device[t] = device[s])
                    THEN "disconnected" ELSE state[t]]
    /\ notified' = [t \in Sessions |->
                       IF t = s \/ (device[s] # 0 /\ device[t] = device[s])
                       THEN <<"disconnected">> ELSE <<>>]
    /\ UNCHANGED <<variant, isInit, hCreator, pos, moving, tgt, pc, cur, elapsed, stepCount, stageConfig, storeVars, piezo>>

\* disconnect(): may be called in any state (also from another context
\* while a call of the session is in flight)
Disconnect(s) ==
    /\ s \in Sess(variant)
    /\ IF device[s] # 0
       THEN \E closes \in BOOLEAN :
               /\ hOpen' = Teardown(hOpen, device[s], closes)
               /\ ev' = Event("disconnect", s, "None", IF closes THEN "closed" ELSE "teardown_failed")
       ELSE /\ UNCHANGED hOpen
            /\ ev' = Event("disconnect", s, "None", "no_handle")
    /\ device' = [device EXCEPT ![s] = 0]
    /\ SetStateNotify(s, "disconnected")
    /\ UNCHANGED <<variant, isInit, hCreator, pos, moving, tgt, pc, cur, elapsed, stepCount, stageConfig, storeVars, piezo>>

(***************************************************************************)
(* The context manager: "with session as ctrl: ..."                        *)
(***************************************************************************)
\* __enter__: self.connect(); return self.  The connect() it starts goes on
\* in ConnectReturn; when connect() raises the with-block is not entered.
Enter(s) == ConnectBegin(s)

\* __exit__(*args): self.disconnect(); it returns None, so an exception of
\* the body goes on after the disconnect
Exit(s) == Disconnect(s)

(***************************************************************************)
(* home(), move_absolute(), move_relative()                                *)
(***************************************************************************)
MotionOps == {"home", "move_absolute", "move_relative"}

\* the session state a motion call sets while it runs
BusyState(op) == IF op = "home" THEN "homing" ELSE "moving"

\* the arguments a caller may pass: a distance for move_relative, a position
\* for move_absolute
MotionArgs(op) ==
    CASE op = "home" -> {0}
      [] op = "move_absolute" -> IF variant = "KIM101" THEN InertialPositions ELSE 0..MaxPos
      [] OTHER -> IF variant = "KIM101" THEN InertialDistances ELSE {-1, 1}

\* what the caller expects get_position() to give after the call: for
\* move_relative its reading before the call plus the distance (no
\* expectation when that reading raised)
Goal(s, op, arg) ==
    CASE op = "home" -> Reading(0)
      [] op = "move_absolute" -> Reading(arg)
      [] OTHER -> IF GetPosition(s, TRUE).res = "float"
                  THEN Reading(GetPosition(s, TRUE).value + arg) ELSE ReadRaises

\* the reading after the call is the one the caller expects
Reached(reading, goal) == reading.res = "float" /\ reading = goal

\* the handle of session s cannot carry a backend call
Broken(s) == device[s] = 0 \/ ~hOpen[device[s]]

\* A Python float (IEEE-754 double) other than zero, without its sign: the
\* 53-bit significand in two limbs and the exponent.  The value of
\* [hi |-> h, lo |-> l, e |-> e] is (h * 2^27 + l) * 2^(e - 52), with
\* 2^25 <= h < 2^26 and 0 <= l < 2^27.
\* The significand sig (given in two limbs) of a result, rounded to nearest,
\* ties to even: up tells that the part cut off is above one half of the last
\* place, half that it is one half exactly
DoubleRound(hi, lo, e, up, half) ==
    IF ~(up \/ (half /\ lo % 2 = 1)) THEN [hi |-> hi, lo |-> lo, e |-> e]
    ELSE IF lo + 1 < 2^27 THEN [hi |-> hi, lo |-> lo + 1, e |-> e]
    ELSE IF hi + 1 < 2^26 THEN [hi |-> hi + 1, lo |-> 0, e |-> e]
    ELSE [hi |-> 2^25, lo |-> 0, e |-> e + 1]

\* <<r, dv, e>> with dv <= r < 2 * dv and r / dv * 2^e the quotient of the
\* integers the scaling started from
RECURSIVE DoubleScale(_, _, _)
DoubleScale(r, dv, e) ==
    IF r >= 2 * dv THEN DoubleScale(r, 2 * dv, e + 1)
    ELSE IF r < dv THEN DoubleScale(2 * r, dv, e - 1)
    ELSE <<r, dv, e>>

\* one more bit of r / dv appended to the significand <<hi, lo>>, for
\* st = <<i, r, hi, lo>> with i bits to go: the bit is taken off r, and r
\* doubled
DoubleBit(st, dv) ==
    LET b == IF st[2] >= dv THEN 1 ELSE 0
        l == 2 * st[4] + b
    IN <<st[1] - 1, 2 * (st[2] - b * dv), 2 * st[3] + l \div 2^27, l % 2^27>>

\* the bits to go of r / dv, most significant first (eight at a time while
\* eight are left)
RECURSIVE DoubleBits(_, _)
DoubleBits(st, dv) ==
    IF st[1] = 0 THEN st
    ELSE IF st[1] < 8 THEN DoubleBits(DoubleBit(st, dv), dv)
    ELSE LET s2 == DoubleBit(DoubleBit(st, dv), dv)
             s4 == DoubleBit(DoubleBit(s2, dv), dv)
             s6 == DoubleBit(DoubleBit(s4, dv), dv)
         IN DoubleBits(DoubleBit(DoubleBit(s6, dv), dv), dv)

\* the float a decimal literal denotes: the double nearest to n / d, for
\* integers 0 < n and 0 < d (a distance of n nanometres, written in
\* millimetres, is Double(n, 10^6))
Double(n, d) ==
    LET sc == DoubleScale(n, d, 0)
        q == DoubleBits(<<53, sc[1], 0, 0>>, sc[2])
    IN DoubleRound(q[3], q[4], sc[3], q[2] > sc[2], q[2] = sc[2])

\* one step of the long division of two significands, in limbs, for
\* st = <<i, rh, rl, qh, ql>> with i steps to go: the divisor <<yh, yl>> is
\* taken off the remainder <<rh, rl>> if it fits, the bit appended to the
\* quotient <<qh, ql>>, and the remainder doubled
DoubleDivBit(st, yh, yl) ==
    LET b == st[2] > yh \/ (st[2] = yh /\ st[3] >= yl)
        sh == IF ~b THEN st[2] ELSE IF st[3] >= yl THEN st[2] - yh ELSE st[2] - yh - 1
        sl == IF ~b THEN st[3] ELSE IF st[3] >= yl THEN st[3] - yl ELSE st[3] + 2^27 - yl
        l == 2 * st[5] + (IF b THEN 1 ELSE 0)
    IN <<st[1] - 1, 2 * sh + (2 * sl) \div 2^27, (2 * sl) % 2^27,
         2 * st[4] + l \div 2^27, l % 2^27>>

\* the steps to go of the long division (eight at a time while eight are
\* left)
RECURSIVE DoubleDivBits(_, _, _)
DoubleDivBits(st, yh, yl) ==
    IF st[1] = 0 THEN st
    ELSE IF st[1] < 8 THEN DoubleDivBits(DoubleDivBit(st, yh, yl), yh, yl)
    ELSE LET s2 == DoubleDivBit(DoubleDivBit(st, yh, yl), yh, yl)
             s4 == DoubleDivBit(DoubleDivBit(s2, yh, yl), yh, yl)
             s6 == DoubleDivBit(DoubleDivBit(s4, yh, yl), yh, yl)
         IN DoubleDivBits(DoubleDivBit(DoubleDivBit(s6, yh, yl), yh, yl), yh, yl)

\* x / y of two floats: 53 bits of the quotient of the significands, rounded
\* to nearest
DoubleDiv(x, y) ==
    LET small == ~(x.hi > y.hi \/ (x.hi = y.hi /\ x.lo >= y.lo))
        q == IF small
             THEN DoubleDivBits(<<53, 2 * x.hi + (2 * x.lo) \div 2^27, (2 * x.lo) % 2^27, 0, 0>>,
                                y.hi, y.lo)
             ELSE DoubleDivBits(<<53, x.hi, x.lo, 0, 0>>, y.hi, y.lo)
    IN DoubleRound(q[4], q[5], x.e - y.e - (IF small THEN 1 ELSE 0),
                   q[2] > y.hi \/ (q[2] = y.hi /\ q[3] > y.lo),
                   q[2] = y.hi /\ q[3] = y.lo)

\* int(x) of a float that is not negative: the fraction is cut off
DoubleTrunc(x) ==
    IF x.e < 0 THEN 0
    ELSE IF 52 - x.e >= 27 THEN x.hi \div 2^(25 - x.e)
    ELSE x.hi * 2^(x.e - 25) + x.lo \div 2^(52 - x.e)

\* the number of steps and the direction InertialController.move_relative
\* derives from a distance (in nanometres here, a float in millimetres in
\* the code): int(abs(distance) / step_size), a float division
InertialSteps(distance) ==
    IF distance = 0 THEN 0
    ELSE DoubleTrunc(DoubleDiv(Double(IF distance < 0 THEN -distance ELSE distance, 10^6),
                               Double(StepSize, 10^6)))

\* the steps of the distances and positions the sessions are called with
StepsOf == [d \in InertialDistances \cup InertialPositions |-> InertialSteps(d)]

InertialDirection(distance) == IF distance > 0 THEN 1 ELSE -1

\* KIM101Controller.jog called with the arguments args: what it returns or
\* raises, and the jog increments the backend is told to move.  The method
\* takes one argument, the direction; without a handle it returns False; a
\* backend failure is absorbed and reported as False.
JogOutcomes(s, args) ==
    IF Len(args) # 1 THEN {[res |-> "TypeError", note |-> "jog_signature", sent |-> 0]}
    ELSE IF device[s] = 0 THEN {[res |-> "False", note |-> "no_handle", sent |-> 0]}
    ELSE {[res |-> "False", note |-> "absorbed", sent |-> 0]} \cup
         (IF Broken(s) THEN {}
          ELSE {[res |-> "True", note |-> "done", sent |-> IF args[1] > 0 THEN 1 ELSE -1]})

\* an inertial home() that seeks the hardware limit
InertialHomeSeeksLimit(s, wait) ==
    /\ SetStateNotify(s, IF device[s] = 0 THEN state[s] ELSE "homing")
    /\ ev' = StepEvent("home", s, IF device[s] = 0 THEN "False" ELSE "True", "limit",
                       wait, TRUE, 0, IF device[s] = 0 THEN 0 ELSE -1)
    /\ UNCHANGED <<pc, cur>>

\* InertialController.home: returns False, whatever its arguments
InertialHome(s, wait) ==
    /\ ev' = StepEvent("home", s, "False", "unsupported", wait, TRUE, 0, 0)
    /\ notified' = NoDelivery /\ UNCHANGED <<state, pc, cur>>

\* InertialController.move_relative(distance), and move_absolute(position),
\* which calls it with position - get_position(): the steps and the
\* direction are computed and handed to self.jog(direction, steps).  The
\* reading subtracted is 0.0, no code counts the steps: the float difference
\* is the position given
InertialMove(s, op, wait, arg) ==
    LET distance == IF op = "move_absolute" THEN arg - GetPosition(s, TRUE).value ELSE arg
        steps == IF distance \in DOMAIN StepsOf THEN StepsOf[distance]
                 ELSE InertialSteps(distance)
        direction == InertialDirection(distance)
    IN /\ \E out \in JogOutcomes(s, <<direction, steps>>) :
             ev' = StepEvent(op, s, out.res, out.note, wait, distance = 0,
                             direction * steps, out.sent)
       /\ notified' = NoDelivery /\ UNCHANGED <<state, pc, cur>>

\* home / move_absolute / move_relative up to the backend call.
\* Servo (Kinesis) and APT motor: without a handle the call returns False;
\* otherwise the state becomes Homing / Moving and the backend is called.
\* Inertial: the calls end here.
MotionBegin(s, op, wait, timeout, arg) ==
    /\ s \in Sess(variant)
    /\ ~IsPiezo(variant)
    /\ pc[s] = "idle"
    /\ IF variant = "KIM101"
       THEN IF op = "home" THEN InertialHome(s, wait) ELSE InertialMove(s, op, wait, arg)
       ELSE IF device[s] = 0
       THEN /\ ev' = MoveEvent(op, s, "False", "no_handle", wait,
                               Reached(GetPosition(s, TRUE), Goal(s, op, arg)))
            /\ notified' = NoDelivery /\ UNCHANGED <<state, pc, cur>>
       ELSE /\ SetStateNotify(s, BusyState(op))
            /\ pc' = [pc EXCEPT ![s] = "call"]
            /\ cur' = [cur EXCEPT ![s] = [op |-> op, wait |-> wait, timeout |-> timeout,
                                          arg |-> arg, goal |-> Goal(s, op, arg)]]
            /\ ev' = MoveEvent(op, s, "pending", "", wait, FALSE)
    /\ UNCHANGED <<variant, device, isInit, hOpen, hCreator, pos, moving, tgt, elapsed,
                   stepCount, stageConfig, storeVars, piezo>>

\* where the backend takes the stage for the call in flight
BackendTarget(s) ==
    CASE cur[s].op = "home" -> 0
      [] cur[s].op = "move_absolute" -> cur[s].arg
      [] OTHER -> pos[s] + cur[s].arg

\* what the backend call (Home / MoveTo / MoveRelative, or the APT wrapper's
\* home / move_absolute / move_relative) can do: raise; return with the
\* motion complete; return with the motion (or its status flag) still on.
BackendOutcomes(s) ==
    IF Broken(s) \/ BackendTarget(s) \notin 0..MaxPos THEN {"raise"}
    ELSE IF variant = "APTMotor" /\ cur[s].wait THEN {"raise", "done"}
    ELSE {"raise", "done", "inflight"}

\* the poll loop follows the backend call: the Kinesis servo class, wait = True
Polls(s) == variant = "KDC101" /\ cur[s].wait

\* the backend call of a motion call returns or raises
BackendReturn(s) ==
    /\ s \in Sess(variant)
    /\ pc[s] = "call"
    /\ \E out \in BackendOutcomes(s) :
          /\ CASE out = "raise" -> UNCHANGED <<pos, moving, tgt>>
               [] out = "done" ->
                    /\ pos' = [pos EXCEPT ![s] = BackendTarget(s)]
                    /\ moving' = [moving EXCEPT ![s] = "none"]
                    /\ tgt' = [tgt EXCEPT ![s] = 0]
               [] OTHER ->
                    /\ moving' = [moving EXCEPT ![s] = BusyState(cur[s].op)]
                    /\ tgt' = [tgt EXCEPT ![s] = BackendTarget(s)]
                    /\ UNCHANGED pos
          /\ IF out = "raise"
             THEN /\ SetStateNotify(s, "error")
                  /\ pc' = [pc EXCEPT ![s] = "idle"]
                  /\ cur' = [cur EXCEPT ![s] = NoCall]
                  /\ ev' = MoveEvent(cur[s].op, s, "MovementError", "backend_raised",
                                     cur[s].wait,
                                     Reached(PositionOf(device, hOpen, pos', s, TRUE), cur[s].goal))
                  /\ UNCHANGED elapsed
             ELSE IF Polls(s)
             THEN /\ pc' = [pc EXCEPT ![s] = "poll"]
                  /\ elapsed' = [elapsed EXCEPT ![s] = 0]
                  /\ ev' = MoveEvent(cur[s].op, s, "pending", "", cur[s].wait, FALSE)
                  /\ notified' = NoDelivery /\ UNCHANGED <<state, cur>>
             ELSE /\ SetStateNotify(s, "connected")
                  /\ pc' = [pc EXCEPT ![s] = "idle"]
                  /\ cur' = [cur EXCEPT ![s] = NoCall]
                  /\ ev' = MoveEvent(cur[s].op, s, "True", out,
                                     cur[s].wait,
                                     Reached(PositionOf(device, hOpen, pos', s, TRUE), cur[s].goal))
                  /\ UNCHANGED elapsed
    /\ UNCHANGED <<variant, device, isInit, hOpen, hCreator, stepCount, stageConfig, storeVars, piezo>>

\* how one pass of the wait loop ends: "while Status.IsHoming / IsMoving:
\* if time.time() - start > timeout: raise MovementError; time.sleep(0.1)".
\* The timeout is counted in sleeps of 0.1 s, rounded up; the clock has
\* moved on since start was taken, so after n sleeps it reads more than n
\* sleeps: a timeout of n sleeps is exceeded on the pass after the n-th sleep
\* (a timeout of 0 on the first pass).  The read of Status is inside the try
\* block: it raises without a handle, and the backend can make it raise with
\* the handle open (raised); either way the call ends in "except Exception".
PollVerdict(s, raised) ==
    IF Broken(s) \/ raised THEN "broken"
    ELSE IF moving[s] # BusyState(cur[s].op) THEN "complete"
    ELSE IF elapsed[s] >= cur[s].timeout THEN "timeout"
    ELSE "sleep"

\* one pass of the wait loop of home / move_absolute / move_relative; the
\* sleeps are counted up to the timeout
PollStep(s) ==
    /\ s \in Sess(variant)
    /\ pc[s] = "poll"
    /\ \E raised \in BOOLEAN :
        LET verdict == PollVerdict(s, raised) IN
          CASE verdict = "sleep" ->
              /\ elapsed' = [elapsed EXCEPT ![s] = IF @ < cur[s].timeout THEN @ + 1 ELSE @]
              /\ ev' = MoveEvent(cur[s].op, s, "pending", "sleep", cur[s].wait, FALSE)
              /\ notified' = NoDelivery /\ UNCHANGED <<state, pc, cur>>
            [] OTHER ->
              /\ SetStateNotify(s, IF verdict = "complete" THEN "connected" ELSE "error")
              /\ pc' = [pc EXCEPT ![s] = "idle"]
              /\ cur' = [cur EXCEPT ![s] = NoCall]
              /\ elapsed' = [elapsed EXCEPT ![s] = 0]
              /\ ev' = MoveEvent(cur[s].op, s,
                                 IF verdict = "complete" THEN "True" ELSE "MovementError",
                                 verdict, cur[s].wait,
                                 Reached(GetPosition(s, TRUE), cur[s].goal))
    /\ UNCHANGED <<variant, device, isInit, hOpen, hCreator, pos, moving, tgt, stepCount, stageConfig, storeVars, piezo>>

\* the hardware finishes the motion in flight on channel c
BackendComplete(c) ==
    /\ c \in Sess(variant)
    /\ moving[c] # "none"
    /\ pos' = [pos EXCEPT ![c] = tgt[c]]
    /\ moving' = [moving EXCEPT ![c] = "none"]
    /\ tgt' = [tgt EXCEPT ![c] = 0]
    /\ ev' = Event("backend", c, "None", "")
    /\ notified' = NoDelivery /\ UNCHANGED <<variant, state, device, isInit, hOpen, hCreator, pc, cur, elapsed, stepCount, stageConfig, storeVars, piezo>>

(***************************************************************************)
(* stop()                                                                  *)
(***************************************************************************)
\* stop(): may be called in any state, also from another context while a
\* wait = True call of the session is blocked.  Without a handle it does
\* nothing.  The servo and APT classes call the backend's stop unguarded
\* (a failure propagates, the state is not touched); the inertial class
\* absorbs the failure and sets Connected either way.
Stop(s) ==
    /\ s \in Sess(variant)
    /\ HasStop(variant)
    /\ IF device[s] = 0
       THEN /\ ev' = Event("stop", s, "None", "no_handle")
            /\ notified' = NoDelivery /\ UNCHANGED <<state, moving, tgt>>
       ELSE \E ok \in BOOLEAN :
               /\ Broken(s) => ~ok
               /\ moving' = IF ok THEN [moving EXCEPT ![s] = "none"] ELSE moving
               /\ tgt' = IF ok THEN [tgt EXCEPT ![s] = 0] ELSE tgt
               /\ IF ok \/ variant = "KIM101"
                  THEN /\ SetStateNotify(s, "connected")
                       /\ ev' = Event("stop", s, "None", IF ok THEN "stopped" ELSE "absorbed")
                  ELSE /\ ev' = Event("stop", s, "BackendError", "backend_raised")
                       /\ notified' = NoDelivery /\ UNCHANGED state
    /\ UNCHANGED <<variant, device, isInit, hOpen, hCreator, pos, pc, cur, elapsed, stepCount, stageConfig, storeVars, piezo>>

(***************************************************************************)
(* KIM101.move_by(steps)                                                   *)
(***************************************************************************)
\* move_by(steps): MoveBy on the session's channel; a backend failure is
\* absorbed and reported as False; neither the session state nor the step
\* counter is touched.  The actuator is open-loop: pos does not follow it.
MoveBy(s, steps) ==
    /\ variant = "KIM101"
    /\ s \in Sess(variant)
    /\ pc[s] = "idle"
    /\ IF device[s] = 0
       THEN ev' = StepEvent("move_by", s, "False", "no_handle", FALSE, FALSE, steps, 0)
       ELSE \E out \in {"raise", "done"} :
               /\ Broken(s) => out = "raise"
               /\ ev' = StepEvent("move_by", s, IF out = "raise" THEN "False" ELSE "True",
                                  IF out = "raise" THEN "absorbed" ELSE "done", FALSE, FALSE,
                                  steps, IF out = "raise" THEN 0 ELSE steps)
    /\ notified' = NoDelivery /\ UNCHANGED <<variant, state, device, isInit, hOpen, hCreator, pos, moving, tgt, pc, cur,
                   elapsed, stepCount, stageConfig, storeVars, piezo>>

\* jog(direction): one jog increment in the direction given
Jog(s, direction) ==
    /\ variant = "KIM101"
    /\ s \in Sess(variant)
    /\ pc[s] = "idle"
    /\ \E out \in JogOutcomes(s, <<direction>>) :
          ev' = StepEvent("jog", s, out.res, out.note, FALSE, FALSE, direction, out.sent)
    /\ notified' = NoDelivery /\ UNCHANGED <<variant, state, device, isInit, hOpen, hCreator, pos, moving, tgt, pc, cur,
                   elapsed, stepCount, stageConfig, storeVars, piezo>>

\* move_to_limit(direction, timeout), up to its wait: without a handle it
\* returns False; otherwise the state is set Moving and a continuous jog is
\* started (jog_continuous absorbs a failure to start it), and the call
\* sleeps until the timeout is over, looking at nothing
MoveToLimit(s, direction) ==
    /\ variant = "KIM101"
    /\ s \in Sess(variant)
    /\ pc[s] = "idle"
    /\ IF device[s] = 0
       THEN /\ ev' = StepEvent("move_to_limit", s, "False", "no_handle", FALSE, FALSE, 0, 0)
            /\ notified' = NoDelivery /\ UNCHANGED <<state, pc, cur>>
       ELSE \E started \in BOOLEAN :
               /\ Broken(s) => ~started
               /\ SetStateNotify(s, "moving")
               /\ pc' = [pc EXCEPT ![s] = "limit"]
               /\ cur' = [cur EXCEPT ![s] = [NoCall EXCEPT !.op = "move_to_limit",
                                                           !.arg = IF started THEN direction ELSE 0]]
               /\ ev' = StepEvent("move_to_limit", s, "pending", "", FALSE, FALSE, 0,
                                  IF started THEN direction ELSE 0)
    /\ UNCHANGED <<variant, device, isInit, hOpen, hCreator, pos, moving, tgt,
                   elapsed, stepCount, stageConfig, storeVars, piezo>>

\* move_to_limit, from the end of its wait to its return: self.stop() (with
\* a handle: Stop on the channel, a failure absorbed, then
\* _set_state(CONNECTED); without one, after a disconnect() from another
\* context: nothing), _set_state(CONNECTED), the step counter is zeroed,
\* True is returned
MoveToLimitReturn(s) ==
    /\ s \in Sess(variant)
    /\ pc[s] = "limit"
    /\ \E ok \in BOOLEAN :
          /\ Broken(s) => ~ok
          /\ moving' = IF ok THEN [moving EXCEPT ![s] = "none"] ELSE moving
          /\ tgt' = IF ok THEN [tgt EXCEPT ![s] = 0] ELSE tgt
    /\ state' = SetState(state, s, "connected")
    /\ notified' = [NoDelivery EXCEPT ![s] =
                       (IF device[s] = 0 THEN << >> ELSE Notify(state, s, "connected")[s])
                          \o Notify(IF device[s] = 0 THEN state
                                    ELSE SetState(state, s, "connected"), s, "connected")[s]]
    /\ stepCount' = [stepCount EXCEPT ![s] = 0]
    /\ pc' = [pc EXCEPT ![s] = "idle"]
    /\ cur' = [cur EXCEPT ![s] = NoCall]
    /\ ev' = StepEvent("move_to_limit", s, "True", "limit", FALSE, FALSE, 0, cur[s].arg)
    /\ UNCHANGED <<variant, device, isInit, hOpen, hCreator, pos, elapsed, stageConfig,
                   storeVars, piezo>>

(***************************************************************************)
(* get_position(), configure_stage()                                       *)
(***************************************************************************)
\* the event of a get_position() call
PositionEvent(s, reading) ==
    [op |-> "get_position", s |-> s, res |-> reading.res, note |-> "", wait |-> FALSE,
     reached |-> FALSE, value |-> reading.value]

\* get_position(): may be called in any state; nothing of the session changes
ReadPosition(s) ==
    /\ s \in Sess(variant)
    /\ \E readOk \in BOOLEAN : ev' = PositionEvent(s, GetPosition(s, readOk))
    /\ notified' = NoDelivery
    /\ UNCHANGED <<variant, state, device, isInit, hOpen, hCreator, pos, moving, tgt, pc, cur,
                   elapsed, stepCount, stageConfig, storeVars, piezo>>

\* stage records configure_stage is called with (None: no stage)
MotorStages(v) == IF v = "KIM101" THEN InertialStages ELSE {Null, "Z825B"}

\* MotorController.configure_stage(stage_config): the stage record of the
\* session is replaced; may be called at any time
MotorConfigureStage(s, stage) ==
    /\ s \in Sess(variant)
    /\ ~IsPiezo(variant)
    /\ stageConfig' = [stageConfig EXCEPT ![s] = stage]
    /\ ev' = Event("configure_stage", s, "None", "")
    /\ notified' = NoDelivery
    /\ UNCHANGED <<variant, state, device, isInit, hOpen, hCreator, pos, moving, tgt, pc, cur,
                   elapsed, stepCount, storeVars, piezo>>

(***************************************************************************)
(* get_status()                                                            *)
(***************************************************************************)
\* the keys of the dict get_status() returns, for a session of variant v
\* that holds a handle or not, when the backend's status read succeeds or
\* fails; {"raise"} when the call raises instead.  The Kinesis servo class
\* reads the status unguarded; the APT motor class returns the bare flag on
\* a failure; the inertial class falls back on position 0 (a failed channel
\* read is reported by get_channel_status as a dict with no position); the
\* piezo classes read voltage and position through getters that absorb a
\* failure.
StatusKeys(v, handle, readOk) ==
    IF ~handle THEN {"connected"}
    ELSE CASE v = "KDC101" ->
                IF readOk
                THEN {"connected", "position", "velocity", "is_moving", "is_homing",
                      "is_homed", "forward_limit", "reverse_limit", "enabled"}
                ELSE {"raise"}
           [] v = "APTMotor" ->
                IF readOk
                THEN {"connected", "position", "is_moving", "is_homed", "status_bits"}
                ELSE {"connected"}
           [] v = "KIM101" ->
                {"connected", "channel", "position", "is_moving", "is_enabled", "step_count"}
           [] OTHER -> {"connected", "voltage", "position", "voltage_min", "voltage_max"}

\* the event of a get_status() call
StatusEvent(s, keys) ==
    [op |-> "get_status", s |-> s, res |-> IF keys = {"raise"} THEN "BackendError" ELSE "dict",
     note |-> "", wait |-> FALSE, reached |-> FALSE, keys |-> keys]

\* get_status(): may be called in any state; nothing of the session changes
GetStatus(s) ==
    /\ s \in Sess(variant)
    /\ \E readOk \in BOOLEAN :
          /\ Broken(s) => ~readOk
          /\ ev' = StatusEvent(s, StatusKeys(variant, device[s] # 0, readOk))
    /\ notified' = NoDelivery /\ UNCHANGED <<variant, state, device, isInit, hOpen, hCreator, pos, moving, tgt, pc, cur,
                   elapsed, stepCount, stageConfig, storeVars, piezo>>

(***************************************************************************)
(* The configuration store: devices.json, read and rewritten whole by      *)
(* every writer, and the copy of each device's entry the GUI keeps.        *)
(***************************************************************************)
\* operations in one run of the store model
MaxOps == 3

\* serials the model uses: a KDC101, a KIM101, and one with no registered prefix
StoreSerials == {27000001, 97000001, 12000001}

\* controllers.py: the "prefix" of each entry of CONTROLLERS
PrefixToController ==
    (27 :> "KDC101") @@ (28 :> "KBD101") @@ (83 :> "TDC001") @@
    (97 :> "KIM101") @@ (29 :> "KPZ101") @@ (81 :> "TPZ001")

\* int(str(serial_number)[:2])
RECURSIVE Prefix(_)
Prefix(n) == IF n < 100 THEN n ELSE Prefix(n \div 10)

\* a lookup of the whole serial number
GetControllerTypeWholeSerial(serial) ==
    IF serial \in DOMAIN PrefixToController THEN PrefixToController[serial] ELSE Null

\* get_controller_type
GetControllerType(serial) ==
    IF Prefix(serial) \in DOMAIN PrefixToController
    THEN PrefixToController[Prefix(serial)] ELSE Null

\* get_channel_count: the "channels" of the type's entry, 1 for an unknown type
GetChannelCount(type) == IF type = "KIM101" THEN 4 ELSE 1

\* the stage registry, in the order of the STAGES dict (an excerpt)
STAGES == <<"PRM1Z8", "PRM1/MZ8", "Z825B", "DDS100", "PIA13">>

\* stages.py: the "compatible_controllers" list of each stage, in its order
CompatibleList ==
    ("PRM1Z8" :> <<"KDC101", "TDC001">>) @@ ("PRM1/MZ8" :> <<"KDC101", "TDC001">>) @@
    ("Z825B" :> <<"KDC101", "TDC001">>) @@ ("DDS100" :> <<"KBD101">>) @@
    ("PIA13" :> <<"KIM101">>)

\* get_compatible_stages(type): the stages whose list names the type, in the
\* order of the registry
GetCompatibleStages(type) ==
    SelectSeq(STAGES, LAMBDA st : \E i \in DOMAIN CompatibleList[st] :
                                     CompatibleList[st][i] = type)

\* names a device may report as its settings name ("" : none)
DetectedNames == {"", "Z825B", "z825", "DDS100/M", "KDC101"}

\* the characters of the names above
Chars ==
    ("PRM1Z8" :> <<"P", "R", "M", "1", "Z", "8">>) @@
    ("PRM1/MZ8" :> <<"P", "R", "M", "1", "/", "M", "Z", "8">>) @@
    ("Z825B" :> <<"Z", "8", "2", "5", "B">>) @@
    ("DDS100" :> <<"D", "D", "S", "1", "0", "0">>) @@
    ("PIA13" :> <<"P", "I", "A", "1", "3">>) @@
    ("z825" :> <<"z", "8", "2", "5">>) @@
    ("DDS100/M" :> <<"D", "D", "S", "1", "0", "0", "/", "M">>) @@
    ("KDC101" :> <<"K", "D", "C", "1", "0", "1">>)

\* str.upper(), on the letters that occur
UpperChar(c) == IF c = "z" THEN "Z" ELSE c

Upper(q) == [i \in 1..Len(q) |-> UpperChar(q[i])]

\* str.replace(pat, ""): every occurrence of pat, left to right
RECURSIVE Remove(_, _)
Remove(q, pat) ==
    IF Len(q) < Len(pat) THEN q
    ELSE IF SubSeq(q, 1, Len(pat)) = pat
    THEN Remove(SubSeq(q, Len(pat) + 1, Len(q)), pat)
    ELSE <<Head(q)>> \o Remove(Tail(q), pat)

\* sub in q
Contains(q, sub) ==
    \E i \in 1..(Len(q) - Len(sub) + 1) : SubSeq(q, i, i + Len(sub) - 1) = sub

\* the stage _try_auto_detect_stage matches a non-empty settings name to
\* ("" : none): the name itself if registered, else the first registered
\* stage that contains, or is contained in, the upper-cased name without
\* "/M" and "-M"
MatchStage(settings) ==
    IF \E i \in 1..Len(STAGES) : STAGES[i] = settings THEN settings
    ELSE LET up == Remove(Remove(Upper(Chars[settings]), <<"/", "M">>), <<"-", "M">>)
             hits == {i \in 1..Len(STAGES) :
                        \/ Contains(up, Upper(Chars[STAGES[i]]))
                        \/ Contains(Upper(Chars[STAGES[i]]), up)}
         IN IF hits = {} THEN ""
            ELSE STAGES[CHOOSE i \in hits : \A j \in hits : i <= j]

\* a dict keeps its keys in the order they were first set: keys is that
\* order, at the value under each key. A document: serial -> channel ->
\* channel record, as far as entries exist
EmptyDoc == [keys |-> << >>, at |-> << >>]

NoChannels == [keys |-> << >>, at |-> << >>]

\* DeviceInfo.config of a device the store has no entry for: {}, which has
\* no "channels" member and is falsy, unlike {"channels": {}}
NoConfig == [keys |-> << >>, at |-> << >>, channels |-> FALSE]

\* a channel record with no field ({}), which callers do not tell from None
NoRecord == [f \in {} |-> Null]

\* d[k] = v on a dict: a key the dict has keeps its place, a new key goes last
Put(d, k, v) ==
    [keys |-> IF k \in DOMAIN d.at THEN d.keys ELSE Append(d.keys, k),
     at |-> [x \in (DOMAIN d.at) \cup {k} |-> IF x = k THEN v ELSE d.at[x]]]

\* rec[k] = v on a channel record
PutField(rec, k, v) == [x \in (DOMAIN rec) \cup {k} |-> IF x = k THEN v ELSE rec[x]]

\* json.dump of a dict: the text of an object, its members as <<key, value>>
\* pairs one after the other, in the order of the dict
DumpObject(d) == [i \in 1..Len(d.keys) |-> <<d.keys[i], d.at[d.keys[i]]>>]

\* json.load of the text of an object: a dict of its members in the order of
\* the text, the last one winning where a key occurs twice
RECURSIVE LoadObject(_)
LoadObject(text) ==
    IF Len(text) = 0 THEN EmptyDoc
    ELSE Put(LoadObject(SubSeq(text, 1, Len(text) - 1)),
             text[Len(text)][1], text[Len(text)][2])

\* json.dump(config): the text of the document, serial by serial and channel
\* by channel
JsonDump(config) ==
    DumpObject([keys |-> config.keys,
                at |-> [s \in DOMAIN config.at |-> DumpObject(config.at[s])]])

\* json.load(f): the document of a text
JsonLoad(text) ==
    [keys |-> LoadObject(text).keys,
     at |-> [s \in DOMAIN LoadObject(text).at |-> LoadObject(LoadObject(text).at[s])]]

\* load_device_config: the document of a valid file, the empty default for
\* an absent or unparsable one
LoadDeviceConfig(d) == IF d.kind = "valid" THEN JsonLoad(d.doc) ELSE EmptyDoc

\* config.get("controllers", {}).get(str(serial), {}).get("channels", {})
ChannelsOf(doc, serial) == IF serial \in DOMAIN doc.at THEN doc.at[serial] ELSE NoChannels

\* channel_record.get("stage", ""), "" also when the channel has no record
StageOf(doc, serial, ch) ==
    IF /\ ch \in DOMAIN ChannelsOf(doc, serial).at
       /\ "stage" \in DOMAIN ChannelsOf(doc, serial).at[ch]
    THEN ChannelsOf(doc, serial).at[ch].stage ELSE ""

\* Python truthiness of a stage value
Assigned(stage) == stage \notin {Null, ""}

\* save_device_config(config): "ok"; "open_failed": mkdir or open raised
\* IOError, the file is as before; "write_failed": open(..., "w") truncated
\* the file and json.dump did not complete
SaveOutcomes == {"ok", "open_failed", "write_failed"}

SaveDeviceConfig(d, config, out) ==
    CASE out = "ok" -> [kind |-> "valid", doc |-> JsonDump(config)]
      [] out = "open_failed" -> d
      [] OTHER -> [kind |-> "truncated", doc |-> << >>]

StoreEvent(op, serial, ch, res, matched) ==
    [op |-> op, serial |-> serial, ch |-> ch, res |-> res, matched |-> matched]

\* the event of a set_device_channel_config call, with its arguments
SetChannelEvent(serial, ch, res, stage, role, lg) ==
    [op |-> "set_channel", serial |-> serial, ch |-> ch, res |-> res, matched |-> "",
     stage |-> stage, role |-> role, lg |-> lg]

\* devices.json holding bytes the platform's text encoding cannot decode
UndecodableDisk == [kind |-> "undecodable", doc |-> << >>]

\* load_device_config(): the dict it returns, or the exception it lets
\* through.  It catches (json.JSONDecodeError, IOError); the
\* UnicodeDecodeError that f.read() raises inside json.load is neither.
LoadCall(d) ==
    IF d.kind = "undecodable"
    THEN [res |-> "UnicodeDecodeError", config |-> EmptyDoc]
    ELSE [res |-> "dict", config |-> LoadDeviceConfig(d)]

\* devices.json when the program starts: absent; left by an earlier run
\* (here: of add_unconfigured_device(27000001)); holding an entry that has no
\* channel ({"97000001": {"channels": {}}}); or holding bytes that are not
\* text
InitialDisks ==
    {[kind |-> "absent", doc |-> << >>],
     [kind |-> "valid",
      doc |-> <<<<27000001, <<<<1, [stage |-> Null, role |-> Null, linked_group |-> Null]>>>>>>>>],
     [kind |-> "valid", doc |-> <<<<97000001, << >>>>>>],
     UndecodableDisk}

\* no connect request is under way
NoPending == << >>

\* GUI handlers (connect requests, dialogs) that may be under way at once
MaxPending == 2

StoreInit ==
    /\ disk \in InitialDisks
    /\ gui = EmptyDoc
    /\ connected = {}
    /\ pending = NoPending
    /\ listing = EmptyBag
    /\ probing = EmptyBag
    /\ written = EmptyDoc
    /\ nops = 0
    /\ sev = StoreEvent("init", 0, 0, "None", "")

\* a set_channel that updates the record in place: an argument left None
\* keeps the value the channel had
SetChannelMerging(serial, ch, stage, role, lg) ==
    /\ nops < MaxOps
    /\ IF LoadCall(disk).res # "dict"
       THEN /\ sev' = SetChannelEvent(serial, ch, LoadCall(disk).res, stage, role, lg)
            /\ UNCHANGED <<disk, written>>
       ELSE \E out \in SaveOutcomes :
          LET config == LoadDeviceConfig(disk)
              chans == ChannelsOf(config, serial)
              old == IF ch \in DOMAIN chans.at /\ "linked_group" \in DOMAIN chans.at[ch]
                     THEN chans.at[ch]
                     ELSE [stage |-> Null, role |-> Null, linked_group |-> Null]
              rec == [stage |-> IF stage = Null THEN old.stage ELSE stage,
                      role |-> IF role = Null THEN old.role ELSE role,
                      linked_group |-> IF lg = Null THEN old.linked_group ELSE lg]
              new == Put(config, serial, Put(chans, ch, rec))
          IN /\ disk' = SaveDeviceConfig(disk, new, out)
             /\ written' = new
             /\ sev' = SetChannelEvent(serial, ch, out, stage, role, lg)
    /\ nops' = nops + 1
    /\ UNCHANGED <<gui, connected, pending, listing, probing, sessVars, piezo>>

\* set_device_channel_config(serial, channel, stage, role, linked_group);
\* the exception load_device_config lets through ends the call
SetChannel(serial, ch, stage, role, lg) ==
    /\ nops < MaxOps
    /\ IF LoadCall(disk).res # "dict"
       THEN /\ sev' = SetChannelEvent(serial, ch, LoadCall(disk).res, stage, role, lg)
            /\ UNCHANGED <<disk, written>>
       ELSE \E out \in SaveOutcomes :
          LET config == LoadDeviceConfig(disk)
              rec == [stage |-> stage, role |-> role, linked_group |-> lg]
              new == Put(config, serial, Put(ChannelsOf(config, serial), ch, rec))
          IN /\ disk' = SaveDeviceConfig(disk, new, out)
             /\ written' = new
             /\ sev' = SetChannelEvent(serial, ch, out, stage, role, lg)
    /\ nops' = nops + 1
    /\ UNCHANGED <<gui, connected, pending, listing, probing, sessVars, piezo>>

\* the channels add_unconfigured_device creates: 1..n in that order, each
\* with a blank record
BlankChannels(n) ==
    [keys |-> [c \in 1..n |-> c],
     at |-> [c \in 1..n |-> [stage |-> Null, role |-> Null, linked_group |-> Null]]]

\* add_unconfigured_device(serial)
AddUnconfigured(serial) ==
    /\ nops < MaxOps
    /\ LET config == LoadDeviceConfig(disk)
           type == GetControllerType(serial)
           new == Put(config, serial, BlankChannels(GetChannelCount(type)))
       IN IF type = Null
          THEN /\ sev' = StoreEvent("add_unconfigured", serial, 0, "False", "")
               /\ UNCHANGED <<disk, written>>
          ELSE IF LoadCall(disk).res # "dict"
          THEN /\ sev' = StoreEvent("add_unconfigured", serial, 0, LoadCall(disk).res, "")
               /\ UNCHANGED <<disk, written>>
          ELSE IF serial \in DOMAIN config.at
          THEN /\ sev' = StoreEvent("add_unconfigured", serial, 0, "exists", "")
               /\ UNCHANGED <<disk, written>>
          ELSE \E out \in SaveOutcomes :
                  /\ disk' = SaveDeviceConfig(disk, new, out)
                  /\ written' = new
                  /\ sev' = StoreEvent("add_unconfigured", serial, 0, out, "")
    /\ nops' = nops + 1
    /\ UNCHANGED <<gui, connected, pending, listing, probing, sessVars, piezo>>

\* the orders in which a backend can enumerate devices of S: each device at
\* most once
Enumerations(S) ==
    {q \in UNION {[1..n -> S] : n \in 0..Cardinality(S)} :
        \A i, j \in 1..Len(q) : q[i] = q[j] => i = j}

\* the GUI thread runs an event loop: the main loop, the processEvents() of
\* a connect request, or the exec_() of a configuration dialog or of the
\* context menu.  The timers that fall due run there, the start-up shot
\* QTimer.singleShot(500, self._discover_devices) among them.  The thread is
\* not inside connect(), whose sleeps block it
GuiRuns == IF Len(pending) = 0 THEN TRUE ELSE pending[Len(pending)].phase # "connecting"

\* the main window takes input, so that a handler of one of its widgets may
\* start: the GUI thread is in the main loop or in the processEvents() of a
\* connect request, which runs the handlers of the events that are queued.
\* While a configuration dialog or the context menu is open (exec_()) the
\* input goes to that window
TakesInput == IF Len(pending) = 0 THEN TRUE ELSE pending[Len(pending)].phase = "events"

\* the requests under way after the innermost one has ended; entry: what it
\* has made of the config of its DeviceInfo, which the requests that hold the
\* same dropped DeviceInfo see
Unwind(entry) ==
    LET req == pending[Len(pending)]
        rest == SubSeq(pending, 1, Len(pending) - 1)
    IN [i \in 1..Len(rest) |->
          IF rest[i].old > 0 /\ rest[i].old = req.old /\ rest[i].serial = req.serial
          THEN [rest[i] EXCEPT !.config = entry]
          ELSE rest[i]]

\* the GUI's discovery: discover_devices() keeps the enumerated serials of a
\* registered type, in the order of the enumeration; _on_devices_found loads
\* the store and rebuilds the device list, each device a new DeviceInfo with
\* the entry the store holds for it now, {} for a serial without an entry.
\* A DeviceInfo a request, a dialog or the context menu holds is no longer in
\* the list: it keeps the entry it had (handlers for one serial that held
\* the list's DeviceInfo hold one dropped object).  The exception
\* load_device_config lets through leaves the list as it is.  It runs from
\* the Discover button and menu entry, and from the start-up timer, which
\* may fall due in any event loop
Discover(found) ==
    /\ nops < MaxOps
    /\ GuiRuns
    /\ IF LoadCall(disk).res # "dict"
       THEN /\ sev' = StoreEvent("discover", 0, 0, LoadCall(disk).res, "")
            /\ UNCHANGED <<gui, connected, pending>>
       ELSE /\ LET kept == SelectSeq(found, LAMBDA x : GetControllerType(x) # Null)
                   config == LoadDeviceConfig(disk)
               IN gui' = [keys |-> kept,
                          at |-> [s \in {kept[i] : i \in 1..Len(kept)} |->
                                     IF s \in DOMAIN config.at THEN config.at[s]
                                     ELSE NoConfig]]
            /\ connected' = {}
            /\ LET dropped == 1 + Cardinality({i \in 1..Len(pending) : pending[i].old > 0})
               IN pending' = [i \in 1..Len(pending) |->
                                IF pending[i].old = 0
                                THEN [pending[i] EXCEPT !.old = dropped,
                                                        !.config = gui.at[pending[i].serial]]
                                ELSE pending[i]]
            /\ sev' = StoreEvent("discover", 0, 0, "None", "")
    /\ nops' = nops + 1
    /\ UNCHANGED <<disk, listing, probing, written, sessVars, piezo>>

\* device.config of the DeviceInfo the request req holds: the list's entry
\* while the DeviceInfo is in the list
PendingConfig(req) == IF req.old > 0 THEN req.config ELSE gui.at[req.serial]

\* ConfigDialog._load_config goes through on the record the entry config has
\* for channel ch: role_edit.setText and description_edit.setText take the
\* record's role and description ("" for a missing key) and raise TypeError
\* when given None
DialogLoads(config, ch) ==
    LET rec == IF ch \in DOMAIN config.at THEN config.at[ch] ELSE NoRecord
    IN /\ "role" \in DOMAIN rec => rec.role # Null
       /\ "description" \in DOMAIN rec => rec.description # Null

\* _show_context_menu up to menu.exec_(): the DeviceInfo of the listed
\* serial under the pointer is fetched and the menu is built, with
\* Disconnect when the DeviceInfo has a controller (ctl), else Connect.  The
\* handler is in menu.exec_(), holding the DeviceInfo
ShowContextMenu(serial) ==
    /\ TakesInput
    /\ Len(pending) < MaxPending
    /\ serial \in DOMAIN gui.at
    /\ pending' = Append(pending, [kind |-> "menu", serial |-> serial, old |-> 0,
                                   config |-> EmptyDoc, phase |-> "exec", own |-> FALSE,
                                   ctl |-> serial \in connected])
    /\ sev' = StoreEvent("menu", serial, 0, "pending", "")
    /\ UNCHANGED <<disk, gui, connected, listing, probing, written, nops, sessVars, piezo>>

\* the context menu is closed with no entry picked, or with Identify, which
\* changes neither the device list nor the store
MenuClose ==
    /\ Len(pending) > 0
    /\ pending[Len(pending)].kind = "menu"
    /\ pending' = SubSeq(pending, 1, Len(pending) - 1)
    /\ sev' = StoreEvent("menu", pending[Len(pending)].serial, 0, "closed", "")
    /\ UNCHANGED <<disk, gui, connected, listing, probing, written, nops, sessVars, piezo>>

\* Configure is picked in the context menu: _configure_device(device), on the
\* DeviceInfo the menu holds, up to dialog.exec_().  ConfigDialog(device, 1)
\* copies device.config ({} when it is falsy; the copy is shallow, so the
\* "channels" dict of a truthy one is shared) and loads channel 1 into its
\* fields.  When that raises, the handler ends there with nothing saved;
\* else the dialog is open and the handler is in exec_(), while the other
\* writers of the store run
DialogOpen ==
    /\ nops < MaxOps
    /\ Len(pending) > 0
    /\ pending[Len(pending)].kind = "menu"
    /\ LET req == pending[Len(pending)]
       IN IF ~DialogLoads(PendingConfig(req), 1)
          THEN /\ sev' = StoreEvent("dialog", req.serial, 1, "TypeError", "")
               /\ pending' = SubSeq(pending, 1, Len(pending) - 1)
          ELSE /\ pending' = [pending EXCEPT ![Len(pending)] =
                                 [kind |-> "dialog", serial |-> req.serial, old |-> req.old,
                                  config |-> req.config, phase |-> "exec",
                                  own |-> PendingConfig(req) = NoConfig]]
               /\ sev' = StoreEvent("dialog", req.serial, 1, "pending", "")
    /\ nops' = nops + 1
    /\ UNCHANGED <<disk, gui, connected, listing, probing, written, sessVars, piezo>>

\* the innermost dialog is accepted, on channel ch (the channel selector of
\* a multi-channel device loads the channel picked) with a stage of the combo
\* box ("": none): get_config() replaces the channel's record in the
\* dialog's copy, which becomes device.config, and _configure_device stores
\* it as the serial's entry
DialogSave(ch, stage, role, descr) ==
    /\ Len(pending) > 0
    /\ pending[Len(pending)].kind = "dialog"
    /\ LET req == pending[Len(pending)]
           serial == req.serial
           type == GetControllerType(serial)
           base == IF req.own THEN NoChannels ELSE PendingConfig(req)
           rec == [stage |-> stage, role |-> role, description |-> descr]
           entry == Put(base, ch, rec)
           new == Put(LoadDeviceConfig(disk), serial, entry)
       IN /\ ch \in 1..GetChannelCount(type)
          /\ ch # 1 => DialogLoads(base, ch)
          /\ stage # "" => \E i \in DOMAIN GetCompatibleStages(type) :
                              GetCompatibleStages(type)[i] = stage
          /\ gui' = IF req.old > 0 THEN gui ELSE Put(gui, serial, entry)
          /\ pending' = Unwind(entry)
          /\ IF LoadCall(disk).res # "dict"
             THEN /\ sev' = StoreEvent("dialog_save", serial, ch, LoadCall(disk).res, "")
                  /\ UNCHANGED <<disk, written>>
             ELSE \E out \in SaveOutcomes :
                     /\ disk' = SaveDeviceConfig(disk, new, out)
                     /\ written' = new
                     /\ sev' = StoreEvent("dialog_save", serial, ch, out, "")
    /\ UNCHANGED <<nops, connected, listing, probing, sessVars, piezo>>

\* the innermost dialog is cancelled
DialogReject ==
    /\ Len(pending) > 0
    /\ pending[Len(pending)].kind = "dialog"
    /\ pending' = SubSeq(pending, 1, Len(pending) - 1)
    /\ sev' = StoreEvent("dialog", pending[Len(pending)].serial, 1, "rejected", "")
    /\ UNCHANGED <<disk, gui, connected, listing, probing, written, nops, sessVars, piezo>>

\* the cached entry after _try_auto_detect_stage matched stage on channel ch
\* while the cached channel record has no stage: a falsy config becomes
\* {"channels": {}}, a missing record {}
Detected(entry, ch, stage) ==
    IF ch \in DOMAIN entry.at
    THEN Put(entry, ch, PutField(entry.at[ch], "stage", stage))
    ELSE Put(entry, ch, [stage |-> stage])

\* _on_device_connect_requested(serial), the slot of a device widget's
\* Connect button, up to the QApplication.processEvents() call of
\* _connect_device: the DeviceInfo of a listed serial is fetched, connected
\* or not, and the events that are queued run before the connect.  A
\* connect request among them is handled the same way, inside this one
GuiConnectRequest(serial) ==
    /\ nops < MaxOps
    /\ TakesInput
    /\ Len(pending) < MaxPending
    /\ serial \in DOMAIN gui.at
    /\ pending' = Append(pending, [kind |-> "connect", serial |-> serial, old |-> 0,
                                   config |-> EmptyDoc, phase |-> "events", own |-> FALSE])
    /\ sev' = StoreEvent("connect", serial, 1, "pending", "")
    /\ nops' = nops + 1
    /\ UNCHANGED <<disk, gui, connected, listing, probing, written, sessVars, piezo>>

\* Connect is picked in the context menu, which offers it for a DeviceInfo
\* without a controller: _connect_device(device), on the DeviceInfo the menu
\* holds, up to its QApplication.processEvents() call
MenuConnect ==
    /\ nops < MaxOps
    /\ Len(pending) > 0
    /\ pending[Len(pending)].kind = "menu"
    /\ ~pending[Len(pending)].ctl
    /\ LET req == pending[Len(pending)]
       IN /\ pending' = [pending EXCEPT ![Len(pending)] =
                            [kind |-> "connect", serial |-> req.serial, old |-> req.old,
                             config |-> req.config, phase |-> "events", own |-> FALSE]]
          /\ sev' = StoreEvent("connect", req.serial, 1, "pending", "")
    /\ nops' = nops + 1
    /\ UNCHANGED <<disk, gui, connected, listing, probing, written, sessVars, piezo>>

\* Disconnect is picked in the context menu, which offers it for a
\* DeviceInfo with a controller: _disconnect_device(device), on the
\* DeviceInfo the menu holds
MenuDisconnect ==
    /\ nops < MaxOps
    /\ Len(pending) > 0
    /\ pending[Len(pending)].kind = "menu"
    /\ pending[Len(pending)].ctl
    /\ LET req == pending[Len(pending)]
       IN /\ connected' = IF req.old > 0 THEN connected ELSE connected \ {req.serial}
          /\ sev' = StoreEvent("disconnect", req.serial, 0, "None", "")
    /\ pending' = SubSeq(pending, 1, Len(pending) - 1)
    /\ nops' = nops + 1
    /\ UNCHANGED <<disk, gui, listing, probing, written, sessVars, piezo>>

\* _connect_device of the innermost request, from the return of
\* processEvents() into controller.connect(): create_controller reads the
\* channel's record from the store; an exception of load_device_config ends
\* the request in "except Exception".  Else the GUI thread is in the sleeps
\* of connect(), other writers of the store run
GuiConnectBegin ==
    /\ Len(pending) > 0
    /\ pending[Len(pending)].kind = "connect"
    /\ pending[Len(pending)].phase = "events"
    /\ IF LoadCall(disk).res # "dict"
       THEN /\ pending' = SubSeq(pending, 1, Len(pending) - 1)
            /\ sev' = StoreEvent("connect", pending[Len(pending)].serial, 1,
                                 LoadCall(disk).res, "")
       ELSE /\ pending' = [pending EXCEPT ![Len(pending)].phase = "connecting"]
            /\ sev' = StoreEvent("connect", pending[Len(pending)].serial, 1, "connecting", "")
    /\ UNCHANGED <<disk, gui, connected, listing, probing, written, nops, sessVars, piezo>>

\* _connect_device of the innermost request, from the return of connect():
\* the controller of channel 1 is kept on the DeviceInfo, then
\* _try_auto_detect_stage: match the settings name the device reports; if the
\* DeviceInfo's record of the controller's channel has no stage, put the
\* match there and store the DeviceInfo's entry as the serial's entry.  An
\* exception of load_device_config is absorbed there, the DeviceInfo's entry
\* changed already
GuiConnect(ok, settings) ==
    /\ Len(pending) > 0
    /\ pending[Len(pending)].kind = "connect"
    /\ pending[Len(pending)].phase = "connecting"
    /\ LET req == pending[Len(pending)]
           rest == SubSeq(pending, 1, Len(pending) - 1)
           serial == req.serial
           match == IF settings = "" THEN "" ELSE MatchStage(settings)
           current == IF /\ 1 \in DOMAIN PendingConfig(req).at
                         /\ "stage" \in DOMAIN PendingConfig(req).at[1]
                      THEN PendingConfig(req).at[1].stage ELSE ""
           entry == Detected(PendingConfig(req), 1, match)
           new == Put(LoadDeviceConfig(disk), serial, entry)
       IN IF ~ok
          THEN /\ sev' = StoreEvent("connect", serial, 1, "connect_failed", "")
               /\ pending' = rest
               /\ UNCHANGED <<disk, gui, connected, written>>
          ELSE /\ connected' = IF req.old > 0 THEN connected ELSE connected \cup {serial}
               /\ IF match = ""
                  THEN /\ sev' = StoreEvent("connect", serial, 1, "no_match", "")
                       /\ pending' = rest
                       /\ UNCHANGED <<disk, gui, written>>
                  ELSE IF Assigned(current)
                  THEN /\ sev' = StoreEvent("connect", serial, 1, "informational", match)
                       /\ pending' = rest
                       /\ UNCHANGED <<disk, gui, written>>
                  ELSE /\ gui' = IF req.old > 0 THEN gui ELSE Put(gui, serial, entry)
                       /\ pending' = Unwind(entry)
                       /\ IF LoadCall(disk).res # "dict"
                          THEN /\ sev' = StoreEvent("connect", serial, 1, "absorbed", match)
                               /\ UNCHANGED <<disk, written>>
                          ELSE \E out \in SaveOutcomes :
                                  /\ disk' = SaveDeviceConfig(disk, new, out)
                                  /\ written' = new
                                  /\ sev' = StoreEvent("connect", serial, 1, out, match)
    /\ UNCHANGED <<nops, listing, probing, sessVars, piezo>>

\* _on_device_disconnect_requested(serial), the slot of a device widget's
\* Disconnect button: _disconnect_device on the listed DeviceInfo
GuiDisconnect(serial) ==
    /\ nops < MaxOps
    /\ TakesInput
    /\ serial \in connected
    /\ connected' = connected \ {serial}
    /\ sev' = StoreEvent("disconnect", serial, 0, "None", "")
    /\ nops' = nops + 1
    /\ UNCHANGED <<disk, gui, pending, listing, probing, written, sessVars, piezo>>

\* the loop of _save_all_config from the i-th device of the list on: the
\* entry of each device whose cached entry is truthy ("if device.config":
\* anything but {}) is put under its serial
RECURSIVE PutCached(_, _, _)
PutCached(config, cache, i) ==
    IF i > Len(cache.keys) THEN config
    ELSE PutCached(IF cache.at[cache.keys[i]] # NoConfig
                   THEN Put(config, cache.keys[i], cache.at[cache.keys[i]])
                   ELSE config,
                   cache, i + 1)

\* _save_all_config: the stored document with the cached entries of the
\* listed devices is saved
SaveAll ==
    /\ nops < MaxOps
    /\ TakesInput
    /\ IF LoadCall(disk).res # "dict"
       THEN /\ sev' = StoreEvent("save_all", 0, 0, LoadCall(disk).res, "")
            /\ UNCHANGED <<disk, written>>
       ELSE \E out \in SaveOutcomes :
          /\ disk' = SaveDeviceConfig(disk, PutCached(LoadDeviceConfig(disk), gui, 1), out)
          /\ written' = PutCached(LoadDeviceConfig(disk), gui, 1)
          /\ sev' = StoreEvent("save_all", 0, 0, out, "")
    /\ nops' = nops + 1
    /\ UNCHANGED <<gui, connected, pending, listing, probing, sessVars, piezo>>

\* serials the writers are called with
WriterSerials == {27000001, 97000001}

\* save_device_config(load_device_config()): the round trip of the document
Resave ==
    /\ nops < MaxOps
    /\ IF LoadCall(disk).res # "dict"
       THEN /\ sev' = StoreEvent("resave", 0, 0, LoadCall(disk).res, "")
            /\ UNCHANGED <<disk, written>>
       ELSE \E out \in SaveOutcomes :
          /\ disk' = SaveDeviceConfig(disk, LoadDeviceConfig(disk), out)
          /\ written' = LoadDeviceConfig(disk)
          /\ sev' = StoreEvent("resave", 0, 0, out, "")
    /\ nops' = nops + 1
    /\ UNCHANGED <<gui, connected, pending, listing, probing, sessVars, piezo>>

(***************************************************************************)
(* create_controller: the factory of sessions.                             *)
(***************************************************************************)
\* controllers.py: the "motor_type" of each entry of CONTROLLERS
MotorType ==
    ("KDC101" :> "dc_servo") @@ ("KBD101" :> "brushless") @@ ("TDC001" :> "dc_servo") @@
    ("KIM101" :> "inertial") @@ ("KPZ101" :> "piezo") @@ ("TPZ001" :> "piezo")

\* controllers.py: the "apt_hw_type" of the entries of CONTROLLERS that have
\* one; it is None for KBD101 and KIM101
AptHwType ==
    ("KDC101" :> 42) @@ ("TDC001" :> 27) @@ ("KPZ101" :> 29) @@ ("TPZ001" :> 81)

\* an APT layer that drives every registered type
SupportsAptAll(type) == type \in DOMAIN MotorType

\* supports_apt: the type is registered and its apt_hw_type is not None
SupportsApt(type) == type \in DOMAIN AptHwType

\* stages.py: the "compatible_controllers" of the stages of STAGES
CompatibleControllers ==
    ("PRM1Z8" :> {"KDC101", "TDC001"}) @@ ("PRM1/MZ8" :> {"KDC101", "TDC001"}) @@
    ("Z825B" :> {"KDC101", "TDC001"}) @@ ("DDS100" :> {"KBD101"}) @@
    ("PIA13" :> {"KIM101"})

\* get_stage_info: the registry's entry (here its name), None if unknown
GetStageInfo(stage) == IF stage \in DOMAIN CompatibleControllers THEN stage ELSE Null

\* a validation that accepts every stage
ValidateAlwaysOk(stage, type) == TRUE

\* validate_stage_compatibility: the is_valid of its result
ValidateStageCompatibility(stage, type) ==
    /\ GetStageInfo(stage) # Null
    /\ type \in CompatibleControllers[stage]

\* a probe that settles for the legacy layer when nothing is installed
GetAvailableBackendLenient(kin, apt) == IF kin THEN "kinesis" ELSE "apt"

\* get_available_backend, given what kinesis_available() and apt_available() say
GetAvailableBackend(kin, apt) ==
    IF kin THEN "kinesis" ELSE IF apt THEN "apt" ELSE "RuntimeError"

\* a lookup that falls back on the device's first channel
GetDeviceChannelConfigFallback(config, serial, ch) ==
    IF ch \in DOMAIN ChannelsOf(config, serial).at THEN ChannelsOf(config, serial).at[ch]
    ELSE IF 1 \in DOMAIN ChannelsOf(config, serial).at THEN ChannelsOf(config, serial).at[1]
    ELSE NoRecord

\* get_device_channel_config: the channel's record; None, which its caller
\* does not tell from an empty record, is the record with no field
GetDeviceChannelConfig(config, serial, ch) ==
    IF ch \in DOMAIN ChannelsOf(config, serial).at THEN ChannelsOf(config, serial).at[ch]
    ELSE NoRecord

\* the classes whose configure_stage keeps the stage (MotorController's);
\* a PiezoController only takes a "voltage_range", which no stage of STAGES has
KeepsStage(cls) == cls \notin {"KPZ101Controller", "APTPiezoAdapter"}

\* the constructors of the Kinesis session classes in kinesis/: that of
\* KIM101Controller rejects a channel outside 1..4, those of KDC101Controller
\* and KPZ101Controller accept any channel
Construct(cls, ch) ==
    IF cls = "KIM101Controller" /\ ch \notin 1..4 THEN "ValueError" ELSE cls

\* the constructors of KBD101Controller and TDC001Controller: servo and
\* brushless sessions, constructed as the KDC101 session is
ConstructMotor(cls, ch) == cls

\* _create_kinesis_controller: the class constructed, or the exception
CreateKinesisController(ch, type) ==
    CASE type = "KDC101" -> Construct("KDC101Controller", ch)
      [] type = "KBD101" -> ConstructMotor("KBD101Controller", ch)
      [] type = "TDC001" -> ConstructMotor("TDC001Controller", ch)
      [] type = "KIM101" -> Construct("KIM101Controller", ch)
      [] type \in {"KPZ101", "TPZ001"} -> Construct("KPZ101Controller", ch)
      [] OTHER -> "ConfigurationError"

\* _create_apt_controller: the class constructed, or the exception
CreateAptController(ch, type) ==
    IF ~SupportsApt(type) THEN "ConfigurationError"
    ELSE IF MotorType[type] \in {"dc_servo", "brushless"} THEN "APTMotorAdapter"
    ELSE IF MotorType[type] = "piezo" THEN "APTPiezoAdapter"
    ELSE "ConfigurationError"

Exceptions == {"ConfigurationError", "RuntimeError", "ValueError"}

\* a create_controller call: its arguments and what the two availability
\* probes would answer
CreateCall(serial, ch, backend, kin, apt) ==
    [serial |-> serial, ch |-> ch, backend |-> backend, kin |-> kin, apt |-> apt]

\* what a create_controller call leaves: res is "ok" or the exception raised,
\* cls the class of the session returned, state its connection_state, stage
\* the stage bound to it, warned whether the warning was printed, resolved
\* the backend the call settled on
Created(call, res, cls, stage, warned, resolved) ==
    [op |-> "create_controller", serial |-> call.serial, ch |-> call.ch, res |-> res,
     matched |-> "", backend |-> call.backend, kin |-> call.kin, apt |-> call.apt,
     cls |-> cls, state |-> IF res = "ok" THEN "DISCONNECTED" ELSE Null,
     stage |-> stage, warned |-> warned, resolved |-> resolved]

\* create_controller from the channel lookup on (lines 553-581): the stage
\* check and its warning, the construction, the binding of the stage
Build(config, call, type, b) ==
    LET chcfg == GetDeviceChannelConfig(config, call.serial, call.ch)
        named == "stage" \in DOMAIN chcfg /\ Assigned(chcfg.stage)
        stageInfo == IF named THEN GetStageInfo(chcfg.stage) ELSE Null
        warned == named /\ ~ValidateStageCompatibility(chcfg.stage, type)
        made == IF b = "kinesis" THEN CreateKinesisController(call.ch, type)
                ELSE CreateAptController(call.ch, type)
    IN IF made \in Exceptions THEN Created(call, made, Null, Null, warned, b)
       ELSE Created(call, "ok", made,
                    IF stageInfo # Null /\ KeepsStage(made) THEN stageInfo ELSE Null,
                    warned, b)

\* a create_controller that probes for a backend before it looks at the serial
CreateControllerProbeFirst(config, call) ==
    LET type == GetControllerType(call.serial)
        b == IF call.backend = Null THEN GetAvailableBackend(call.kin, call.apt)
             ELSE call.backend
    IN IF b = "RuntimeError" THEN Created(call, "RuntimeError", Null, Null, FALSE, Null)
       ELSE IF type = Null THEN Created(call, "ConfigurationError", Null, Null, FALSE, Null)
       ELSE Build(config, call, type, b)

\* create_controller(serial_number, channel, backend), reading the document
\* config
CreateController(config, call) ==
    LET type == GetControllerType(call.serial)
        b == IF call.backend = Null THEN GetAvailableBackend(call.kin, call.apt)
             ELSE call.backend
    IN IF type = Null THEN Created(call, "ConfigurationError", Null, Null, FALSE, Null)
       ELSE IF b = "RuntimeError" THEN Created(call, "RuntimeError", Null, Null, FALSE, Null)
       ELSE Build(config, call, type, b)

\* serials create_controller is called on: one of each registered type and
\* one with no registered prefix
CreateSerials ==
    {27000001, 28000001, 83000001, 97000001, 29000001, 81000001, 12000001}

\* channels it is called on: the last one is no channel of any device
CreateChannels == {1, 2, 5}

\* its backend argument
BackendArgs == {Null, "kinesis", "apt"}

\* a create_controller call; the store is read, never written
Create(serial, ch, backend, kin, apt) ==
    /\ nops < MaxOps
    /\ sev' = CreateController(LoadDeviceConfig(disk), CreateCall(serial, ch, backend, kin, apt))
    /\ nops' = nops + 1
    /\ UNCHANGED <<disk, gui, written, connected, pending, listing, probing, sessVars, piezo>>

\* arguments of the writers
(***************************************************************************)
(* Link-group helpers.                                                     *)
(***************************************************************************)
\* the members of a finite set of integers, ascending (sorted(result))
RECURSIVE Ascending(_)
Ascending(S) ==
    IF S = {} THEN << >>
    ELSE LET least == CHOOSE x \in S : \A y \in S : x <= y
         IN <<least>> \o Ascending(S \ {least})

\* get_linked_channels(serial, linked_group): the channels of the serial's
\* entry whose record is truthy ("if ch_config and ...": a record {} is
\* passed over, whatever the group asked for) and has that link group (None
\* for a record without the key), ascending
GetLinkedChannels(d, serial, group) ==
    LET channels == ChannelsOf(LoadDeviceConfig(d), serial).at
    IN Ascending({c \in DOMAIN channels :
                     /\ DOMAIN channels[c] # {}
                     /\ (IF "linked_group" \in DOMAIN channels[c]
                         THEN channels[c].linked_group ELSE Null) = group})

(***************************************************************************)
(* Discovery: discover_devices() and discover_devices_with_stages().       *)
(***************************************************************************)
\* serials of the attached devices: two servo controllers (KDC101, KBD101),
\* an inertial one, and one with no registered prefix
DiscoverySerials == {27000001, 28000001, 97000001, 12000001}

\* the empty list of devices
NoDevices == [s \in {} |-> Null]

\* one entry of the list discovery returns (the description is left out)
DeviceEntry(d, serial, type) ==
    [controller_type |-> type,
     channels |-> GetChannelCount(type),
     configured |-> serial \in DOMAIN LoadDeviceConfig(d).at]

\* _discover_kinesis, the list as a function of the serial: the enumerated
\* serials of a registered type; [] when the enumeration raises
DiscoverKinesis(d, enumOk, found) ==
    IF enumOk
    THEN [s \in {x \in found : GetControllerType(x) # Null} |->
             DeviceEntry(d, s, GetControllerType(s))]
    ELSE NoDevices

\* _discover_apt: the units of the four hardware types it scans (a unit is
\* taken to have the hardware type of its serial's prefix)
DiscoverApt(d, enumOk, found) ==
    IF enumOk
    THEN [s \in {x \in found : GetControllerType(x) \in DOMAIN AptHwType} |->
             DeviceEntry(d, s, GetControllerType(s))]
    ELSE NoDevices

\* discover_devices: what it returns or raises (res) and the list (devices)
DiscoverDevices(d, kin, apt, enumOk, found) ==
    CASE GetAvailableBackend(kin, apt) = "kinesis" ->
            [res |-> "list", devices |-> DiscoverKinesis(d, enumOk, found)]
      [] GetAvailableBackend(kin, apt) = "apt" ->
            [res |-> "list", devices |-> DiscoverApt(d, enumOk, found)]
      [] OTHER -> [res |-> "RuntimeError", devices |-> NoDevices]

\* is_device_configured: some channel of the serial has a truthy stage
IsDeviceConfigured(d, serial) ==
    \E c \in DOMAIN ChannelsOf(LoadDeviceConfig(d), serial).at :
        LET chConfig == ChannelsOf(LoadDeviceConfig(d), serial).at[c]
        IN "stage" \in DOMAIN chConfig /\ Assigned(chConfig.stage)

\* controller types whose stage the motor EEPROM query can detect
MotorControllers == {"KDC101", "KBD101", "TDC001"}

\* how the EEPROM query of one device ends: it raises, it finds no stage
\* definition, or it reads a part number
ProbeOutcomes == {"raise", Null, "Z825B"}

\* a stage query that lets the failure of the EEPROM query through
GetConnectedStageInfoUnguarded(backend, type, probe) ==
    IF backend # "kinesis" THEN Null
    ELSE IF type \notin MotorControllers THEN Null
    ELSE IF probe = "raise" THEN "Exception"
    ELSE probe

\* get_connected_stage_info under the backend in use: the part number read
\* from the EEPROM, None where nothing is or can be detected
GetConnectedStageInfo(backend, type, probe) ==
    IF backend # "kinesis" THEN Null
    ELSE IF type \notin MotorControllers THEN Null
    ELSE IF probe = "raise" THEN Null
    ELSE probe

\* the stage queries of discover_devices_with_stages: each device of the
\* list base, which discover_devices() returned, with its detected stage and
\* the registry's parameters of that stage (probes: how the EEPROM query of
\* each servo controller ends)
WithStages(base, backend, probes) ==
    LET stageInfo == [s \in DOMAIN base.devices |->
                         IF base.devices[s].controller_type \in MotorControllers
                         THEN GetConnectedStageInfo(backend, base.devices[s].controller_type,
                                                    IF s \in DOMAIN probes THEN probes[s] ELSE Null)
                         ELSE Null]
    IN IF base.res # "list" THEN base
       ELSE IF \E s \in DOMAIN base.devices : stageInfo[s] = "Exception"
       THEN [res |-> "Exception", devices |-> NoDevices]
       ELSE [res |-> "list",
             devices |-> [s \in DOMAIN base.devices |->
                 [controller_type |-> base.devices[s].controller_type,
                  channels |-> base.devices[s].channels,
                  configured |-> base.devices[s].configured,
                  stage |-> stageInfo[s],
                  stage_params |-> IF stageInfo[s] # Null
                                   THEN GetStageInfo(stageInfo[s]) ELSE Null]]]

\* the event of a discovery call: its result and the backend in use, and for
\* the call with stages the serials discover_devices() lists and how each
\* EEPROM query ended
DiscoveryEvent(op, result, backend, listed, probes) ==
    [op |-> op, serial |-> 0, ch |-> 0, res |-> result.res, matched |-> "",
     devices |-> result.devices, backend |-> backend, listed |-> listed, probes |-> probes]

\* a discover_devices() call; the store is read, never written
ListDevices(kin, apt, enumOk, found) ==
    /\ nops < MaxOps
    /\ sev' = DiscoveryEvent("discover_devices",
                             DiscoverDevices(disk, kin, apt, enumOk, found),
                             GetAvailableBackend(kin, apt), {}, NoDevices)
    /\ nops' = nops + 1
    /\ UNCHANGED <<disk, gui, written, connected, pending, listing, probing, sessVars, piezo>>

\* the devices of a list whose EEPROM is queried: the servo controllers,
\* under Kinesis
Queried(base, backend) ==
    IF backend = "kinesis" /\ base.res = "list"
    THEN {s \in DOMAIN base.devices : base.devices[s].controller_type \in MotorControllers}
    ELSE {}

\* discover_devices_with_stages() calls that may be under way at once
MaxListing == 1

\* a discover_devices_with_stages() call up to its first EEPROM query:
\* discover_devices() reads the store and gives the list.  With no device to
\* query the call returns; else the queries follow, one device after the
\* other, each sleeping twice with the device connected, while other callers
\* run
ListDevicesWithStages(kin, apt, enumOk, found) ==
    /\ nops < MaxOps
    /\ LET base == DiscoverDevices(disk, kin, apt, enumOk, found)
           backend == GetAvailableBackend(kin, apt)
       IN IF Queried(base, backend) = {}
          THEN /\ sev' = DiscoveryEvent("discover_devices_with_stages",
                                        WithStages(base, backend, NoDevices),
                                        backend, DOMAIN base.devices, NoDevices)
               /\ UNCHANGED listing
          ELSE /\ BagCardinality(listing) < MaxListing
               /\ listing' = listing (+) SetToBag({[base |-> base, probes |-> NoDevices,
                                                 cur |-> 0, phase |-> "loop"]})
               /\ sev' = DiscoveryEvent("discover_devices_with_stages",
                                        [res |-> "pending", devices |-> NoDevices],
                                        backend, DOMAIN base.devices, NoDevices)
    /\ nops' = nops + 1
    /\ UNCHANGED <<disk, gui, written, connected, pending, probing, sessVars, piezo>>

\* the call with the query of device s ended by out
Probed(call, s, out) ==
    [call EXCEPT !.probes = [x \in (DOMAIN call.probes) \cup {s} |->
                                IF x = s THEN out ELSE call.probes[x]],
                 !.cur = 0, !.phase = "loop"]

\* one step of the stage queries of a call: call becomes next
StageQueryStep(call, next, s, note) ==
    /\ BagIn(call, listing)
    /\ listing' = (listing (-) SetToBag({call})) (+) SetToBag({next})
    /\ sev' = StoreEvent("stage_query", s, 0, note, "")
    /\ UNCHANGED <<disk, gui, written, connected, pending, probing, nops, sessVars, piezo>>

\* get_connected_stage_info of the next servo device s of the list (the list
\* is in the order of the backend's enumeration, which may be any), up to
\* the first sleep of _get_stage_info_kinesis: BuildDeviceList, the factory,
\* Connect.  "raise": one of them raises, absorbed: the stage is None;
\* "absent": the factory returns None, so does the query; "connected": the
\* query sleeps with the device connected
StageQueryBegin(call, s, out) ==
    /\ call.cur = 0
    /\ s \in Queried(call.base, "kinesis") \ DOMAIN call.probes
    /\ StageQueryStep(call,
                      CASE out = "raise" -> Probed(call, s, "raise")
                        [] out = "absent" -> Probed(call, s, Null)
                        [] OTHER -> [call EXCEPT !.cur = s, !.phase = "connected"],
                      s, out)

\* the query going on, from its first sleep to its second:
\* LoadMotorConfiguration and StartPolling, which may raise
StageQuerySettle(call, out) ==
    /\ call.phase = "connected"
    /\ StageQueryStep(call,
                      IF out = "raise" THEN Probed(call, call.cur, "raise")
                      ELSE [call EXCEPT !.phase = "polling"],
                      call.cur, out)

\* the query going on, from its second sleep to its return:
\* GetStageDefinition, StopPolling, Disconnect; probe: it raises, it finds no
\* stage definition, or it reads a part number
StageQueryEnd(call, probe) ==
    /\ call.phase = "polling"
    /\ StageQueryStep(call, Probed(call, call.cur, probe), call.cur, "read")

\* a discover_devices_with_stages() call whose queries are done returns: the
\* list is the one discover_devices() gave it, with the stages
ListDevicesWithStagesReturn(call) ==
    /\ BagIn(call, listing)
    /\ call.cur = 0
    /\ DOMAIN call.probes = Queried(call.base, "kinesis")
    /\ listing' = listing (-) SetToBag({call})
    /\ sev' = DiscoveryEvent("discover_devices_with_stages",
                             WithStages(call.base, "kinesis", call.probes),
                             "kinesis", DOMAIN call.base.devices, call.probes)
    /\ UNCHANGED <<disk, gui, written, connected, pending, probing, nops, sessVars, piezo>>

(***************************************************************************)
(* The registries queried on their own: validate_stage_compatibility and   *)
(* get_controller_type.                                                    *)
(***************************************************************************)
\* " or ".join(compatible), as the list of its words
RECURSIVE JoinOr(_)
JoinOr(list) ==
    IF Len(list) <= 1 THEN list
    ELSE <<Head(list), "or">> \o JoinOr(Tail(list))

\* validate_stage_compatibility: the message of its result, word by word
ValidateMessage(stage, type) ==
    IF GetStageInfo(stage) = Null THEN <<"Unknown stage:", stage>>
    ELSE IF ValidateStageCompatibility(stage, type)
    THEN <<stage, "is compatible with", type>>
    ELSE <<stage, "requires">> \o JoinOr(CompatibleList[stage])
            \o <<"but controller is", type>>

\* stage names and controller types it is called on: the registry's, one the
\* registry does not list, and the empty name
ValidateStages == {"PRM1Z8", "PRM1/MZ8", "Z825B", "DDS100", "PIA13", "UNLISTED", ""}

ValidateTypes == {"KDC101", "KBD101", "TDC001", "KIM101", "KPZ101", "TPZ001", "UNKNOWN"}

\* a validate_stage_compatibility call
Validate(stage, type) ==
    /\ nops < MaxOps
    /\ sev' = [op |-> "validate", serial |-> 0, ch |-> 0, res |-> "tuple", matched |-> "",
               stage |-> stage, type |-> type,
               valid |-> ValidateStageCompatibility(stage, type),
               message |-> ValidateMessage(stage, type)]
    /\ nops' = nops + 1
    /\ UNCHANGED <<disk, gui, written, connected, pending, listing, probing, sessVars, piezo>>

\* serials get_controller_type is called on (non-negative integers): of
\* registered and unregistered prefixes, of eight and of fewer digits
RegistrySerials ==
    {27000001, 27999999, 2712, 27, 28000001, 83000001, 97000001, 29000001, 81000001,
     12000001, 2, 0, 100, 99, 970}

\* get_controller_type(serial), as a call
ResolveType(serial) ==
    /\ nops < MaxOps
    /\ sev' = StoreEvent("get_controller_type", serial, 0, GetControllerType(serial), "")
    /\ nops' = nops + 1
    /\ UNCHANGED <<disk, gui, written, connected, pending, listing, probing, sessVars, piezo>>

\* the availability probes get_available_backend makes, in order: "if
\* kinesis_available(): ... elif apt_available(): ..."
BackendProbes(kin) == IF kin THEN <<"kinesis">> ELSE <<"kinesis", "apt">>

\* a get_available_backend() call, given what the two probes would say
SelectBackend(kin, apt) ==
    /\ nops < MaxOps
    /\ sev' = [op |-> "get_available_backend", serial |-> 0, ch |-> 0,
               res |-> GetAvailableBackend(kin, apt), matched |-> "",
               kin |-> kin, apt |-> apt, probes |-> BackendProbes(kin)]
    /\ nops' = nops + 1
    /\ UNCHANGED <<disk, gui, written, connected, pending, listing, probing, sessVars, piezo>>

(***************************************************************************)
(* load_device_config() called on its own, also on a file whose bytes are  *)
(* not text.                                                               *)
(***************************************************************************)
\* a load_device_config() call
Load ==
    /\ nops < MaxOps
    /\ sev' = [op |-> "load", serial |-> 0, ch |-> 0, res |-> LoadCall(disk).res,
               matched |-> "", config |-> LoadCall(disk).config]
    /\ nops' = nops + 1
    /\ UNCHANGED <<disk, gui, written, connected, pending, listing, probing, sessVars, piezo>>

(***************************************************************************)
(* A piezo session: create_controller with a bound stage, connect(),       *)
(* set_voltage(), set_voltage_safe(), zero().  Voltages are in volts.      *)
(***************************************************************************)
\* stages.py: the upper end of "voltage_range" of the piezo stages (the
\* lower end is 0 everywhere)
PiezoStageRange ==
    ("PK4FA7P1" :> 75) @@ ("PAZ005" :> 75) @@ ("PAZ015" :> 150) @@ ("POLARIS-K1PZ" :> 75)

\* PiezoController.__init__: self._voltage_range = (0, 75)
DefaultVoltageMax == 75

\* what GetMaxOutputVoltage() may report: the device's output range setting
DeviceMaxVoltages == {75, 150}

\* voltages the calls are given
Voltages == {-10, 0, 50, 100, 200}

PiezoClasses == {"KPZ101Controller", "APTPiezoAdapter"}

\* PiezoController.configure_stage: the clamp range becomes the stage's, if
\* the stage's entry has a "voltage_range" (the piezo stages have)
ConfigureStage(vmax, stage) ==
    IF stage \in DOMAIN PiezoStageRange THEN PiezoStageRange[stage] ELSE vmax

\* max(voltage_min, min(voltage_max, voltage))
Clamp(v, vmax) ==
    LET low == IF vmax < v THEN vmax ELSE v
    IN IF 0 > low THEN 0 ELSE low

\* create_controller for a piezo device whose channel has stage assigned
\* (Null: none): the session is constructed and the stage is bound
PiezoCreate(cls, stage) ==
    /\ piezo' = [cls |-> cls,
                 bound |-> IF stage = Null THEN 0 ELSE PiezoStageRange[stage],
                 vmax |-> ConfigureStage(DefaultVoltageMax, stage),
                 dev |-> FALSE, busy |-> 0, op |-> "create", res |-> "ok", sent |-> 0]
    /\ UNCHANGED <<sessVars, storeVars>>

\* configure_stage(stage_config) called on the session: the stage is bound
\* in place of the one bound before; a stage entry without "voltage_range"
\* (a motor stage) leaves the session as it is
PiezoConfigureStage(stage) ==
    /\ piezo.cls # Null
    /\ piezo' = [piezo EXCEPT
                    !.bound = IF stage \in DOMAIN PiezoStageRange
                              THEN PiezoStageRange[stage] ELSE @,
                    !.vmax = ConfigureStage(@, stage),
                    !.op = "configure_stage", !.res = "None"]
    /\ UNCHANGED <<sessVars, storeVars>>

\* connect() calls of the piezo session that may be in their sleep at once
MaxPiezoConnects == 2

\* connect(), up to the calls that open the handle, on a session with or
\* without a handle.  "early": it fails before the handle is assigned, the
\* handle is as before; "notfound": CreateKCubePiezo returns None, which is
\* assigned in place of the handle held, and the call fails; "initfail": it
\* fails with the new handle assigned; "opened": APTPiezoAdapter returns
\* True, KPZ101Controller is in time.sleep(0.5)
PiezoConnect(out) ==
    /\ piezo.cls # Null
    /\ out = "notfound" => piezo.cls = "KPZ101Controller"
    /\ (out = "opened" /\ piezo.cls = "KPZ101Controller") => piezo.busy < MaxPiezoConnects
    /\ piezo' = [piezo EXCEPT
                    !.dev = CASE out = "early" -> @
                              [] out = "notfound" -> FALSE
                              [] OTHER -> TRUE,
                    !.busy = IF out = "opened" /\ piezo.cls = "KPZ101Controller"
                             THEN @ + 1 ELSE @,
                    !.op = "connect",
                    !.res = IF out # "opened" THEN "ConnectionError"
                            ELSE IF piezo.cls = "KPZ101Controller" THEN "pending"
                            ELSE "True"]
    /\ UNCHANGED <<sessVars, storeVars>>

\* KPZ101Controller.connect(), from the end of its sleep to its return: the
\* clamp range is replaced by (0, GetMaxOutputVoltage()); the call fails
\* when GetMaxOutputVoltage raises or a disconnect() has taken the handle
PiezoConnectReturn(ok, devMax) ==
    /\ piezo.busy > 0
    /\ piezo' = [piezo EXCEPT
                    !.busy = @ - 1,
                    !.vmax = IF ok /\ piezo.dev THEN devMax ELSE @,
                    !.op = "connect",
                    !.res = IF ok /\ piezo.dev THEN "True" ELSE "ConnectionError"]
    /\ UNCHANGED <<sessVars, storeVars>>

\* disconnect()
PiezoDisconnect ==
    /\ piezo.cls # Null
    /\ piezo' = [piezo EXCEPT !.dev = FALSE, !.op = "disconnect", !.res = "None"]
    /\ UNCHANGED <<sessVars, storeVars>>

\* set_voltage(v), set_voltage_safe(v) (clamp, then set_voltage) and zero()
\* (set_voltage(0.0)): without a handle False; else the clamped voltage is
\* sent; a failure of the backend call is absorbed and reported as False
PiezoSetVoltage(op, v, ok) ==
    /\ piezo.cls # Null
    /\ LET asked == CASE op = "zero" -> 0
                      [] op = "set_voltage_safe" -> Clamp(v, piezo.vmax)
                      [] OTHER -> v
       IN piezo' = [piezo EXCEPT
                       !.op = op,
                       !.res = IF piezo.dev /\ ok THEN "True" ELSE "False",
                       !.sent = IF piezo.dev /\ ok THEN Clamp(asked, piezo.vmax) ELSE @]
    /\ UNCHANGED <<sessVars, storeVars>>

PiezoOps == {"set_voltage", "set_voltage_safe", "zero"}

(***************************************************************************)
(* The stage query of one device: _get_stage_info_kinesis, call by call.   *)
(***************************************************************************)
\* the backend calls of a query in which nothing fails, in order
ProbeCalls ==
    <<"BuildDeviceList", "Create", "Connect", "LoadMotorConfiguration", "StartPolling",
      "GetStageDefinition", "StopPolling", "Disconnect">>

\* how many of the query's backend calls may fail in one run
MaxFailures == 2

\* which of the backend calls of a run raise, by their place in the run
FailureSets == {F \in SUBSET (1..(Len(ProbeCalls) + 2)) : Cardinality(F) <= MaxFailures}

\* _get_stage_info_kinesis: the backend calls issued, in order, and the
\* part number returned (Null: None) or "raise".  BuildDeviceList is called
\* before the try block.  created: the factory (CreateKCubeDCServo, ...)
\* returns a device object; when it returns None the query returns None at
\* once.  The calls run up to the first that raises; the except clause then,
\* if the device object exists, issues StopPolling and Disconnect inside one
\* "try: ... except: pass" and re-raises.
GetStageInfoKinesis(failing, created, stageDef) ==
    LET normal == {k \in 1..Len(ProbeCalls) : k \in failing}
        first == IF normal = {} THEN 0
                 ELSE CHOOSE k \in normal : \A j \in normal : k <= j
    IN IF first \in {1, 2} THEN [calls |-> SubSeq(ProbeCalls, 1, first), res |-> "raise"]
       ELSE IF ~created THEN [calls |-> SubSeq(ProbeCalls, 1, 2), res |-> Null]
       ELSE IF first = 0 THEN [calls |-> ProbeCalls, res |-> stageDef]
       ELSE IF (first + 1) \in failing
       THEN [calls |-> SubSeq(ProbeCalls, 1, first) \o <<"StopPolling">>, res |-> "raise"]
       ELSE [calls |-> SubSeq(ProbeCalls, 1, first) \o <<"StopPolling", "Disconnect">>,
             res |-> "raise"]

\* get_connected_stage_info calls that may be under way at once
MaxProbing == 1

\* the place of a backend call in a query in which nothing fails
CallNo(name) == CHOOSE k \in 1..Len(ProbeCalls) : ProbeCalls[k] = name

\* the query q reaches the time.sleep(0.3) that follows its call name
\* (Connect, StartPolling): the backend is Kinesis, the type a servo or
\* brushless one, the factory gave a device object, and no call up to that
\* one raises
Sleeps(q, name) ==
    /\ q.backend = "kinesis" /\ q.type \in MotorControllers
    /\ q.created
    /\ q.failing \cap (1..CallNo(name)) = {}

\* the event of a get_connected_stage_info call: res "pending" while the
\* call sleeps, calls: the backend calls issued so far
ProbeEvent(q, res, calls) ==
    [op |-> "get_connected_stage_info", serial |-> 0, ch |-> 0,
     res |-> res, matched |-> "",
     backend |-> q.backend, type |-> q.type, failing |-> q.failing,
     created |-> q.created, calls |-> calls]

\* the return of get_connected_stage_info: what it gives and the backend
\* calls the whole query has issued
ProbeReturn(q) ==
    LET queried == q.backend = "kinesis" /\ q.type \in MotorControllers
        query == GetStageInfoKinesis(q.failing, q.created, q.stageDef)
    IN ProbeEvent(q, GetConnectedStageInfo(q.backend, q.type, query.res),
                  IF queried THEN query.calls ELSE << >>)

\* a get_connected_stage_info(serial, type) call under the backend in use,
\* up to the first sleep of _get_stage_info_kinesis (BuildDeviceList, the
\* factory, Connect), where it waits with the probe handle connected while
\* other callers run; a call that does not get there returns
ProbeStage(backend, type, failing, created, stageDef) ==
    /\ nops < MaxOps
    /\ BagCardinality(probing) < MaxProbing
    /\ LET q == [backend |-> backend, type |-> type, failing |-> failing,
                 created |-> created, stageDef |-> stageDef, phase |-> "connected"]
       IN IF Sleeps(q, "Connect")
          THEN /\ probing' = probing (+) SetToBag({q})
               /\ sev' = ProbeEvent(q, "pending", SubSeq(ProbeCalls, 1, CallNo("Connect")))
          ELSE /\ sev' = ProbeReturn(q)
               /\ UNCHANGED probing
    /\ nops' = nops + 1
    /\ UNCHANGED <<disk, gui, written, connected, pending, listing, sessVars, piezo>>

\* the query q going on, from its first sleep to its second:
\* LoadMotorConfiguration and StartPolling; when one of them raises the
\* except clause cleans up and the call returns None
ProbeStageSettle(q) ==
    /\ BagIn(q, probing)
    /\ q.phase = "connected"
    /\ IF Sleeps(q, "StartPolling")
       THEN /\ probing' = (probing (-) SetToBag({q}))
                              (+) SetToBag({[q EXCEPT !.phase = "polling"]})
            /\ sev' = ProbeEvent(q, "pending",
                                 SubSeq(ProbeCalls, 1, CallNo("StartPolling")))
       ELSE /\ probing' = probing (-) SetToBag({q})
            /\ sev' = ProbeReturn(q)
    /\ UNCHANGED <<disk, gui, written, connected, pending, listing, nops, sessVars, piezo>>

\* the query q going on, from its second sleep to the return:
\* GetStageDefinition, StopPolling, Disconnect, or the cleanup of the except
\* clause
ProbeStageEnd(q) ==
    /\ BagIn(q, probing)
    /\ q.phase = "polling"
    /\ probing' = probing (-) SetToBag({q})
    /\ sev' = ProbeReturn(q)
    /\ UNCHANGED <<disk, gui, written, connected, pending, listing, nops, sessVars, piezo>>

\* device types the stage query is asked for
ProbeTypes == {"KDC101", "KBD101", "KIM101", "KPZ101"}

StageArgs == {Null, "PRM1Z8"}

SetArgs ==
    {[stage |-> st, role |-> r, lg |-> g] :
        st \in StageArgs, r \in {Null}, g \in {Null, "g1"}}

\* what the dialog is accepted with: no stage or a stage picked in the
\* combo box, a role, no description
DialogArgs ==
    {[stage |-> st, role |-> "r1", descr |-> ""] : st \in {"", "Z825B", "PIA13"}}

StoreNext ==
    \/ \E serial \in WriterSerials, ch \in 1..2, a \in SetArgs :
          SetChannel(serial, ch, a.stage, a.role, a.lg)
    \/ \E serial \in StoreSerials : AddUnconfigured(serial)
    \/ \E found \in Enumerations(StoreSerials) : Discover(found)
    \/ \E serial \in StoreSerials : ShowContextMenu(serial)
    \/ MenuClose
    \/ DialogOpen
    \/ MenuConnect
    \/ MenuDisconnect
    \/ \E ch \in 1..2, a \in DialogArgs : DialogSave(ch, a.stage, a.role, a.descr)
    \/ DialogReject
    \/ \E serial \in StoreSerials : GuiConnectRequest(serial)
    \/ GuiConnectBegin
    \/ \E ok \in BOOLEAN, settings \in DetectedNames : GuiConnect(ok, settings)
    \/ \E serial \in StoreSerials : GuiDisconnect(serial)
    \/ SaveAll
    \/ Resave

(***************************************************************************)
(* The session state machine.                                              *)
(***************************************************************************)
SessNext ==
    \/ \E s \in Sessions : ConnectBegin(s)
    \/ \E s \in Sessions : ConnectCreate(s)
    \/ \E s \in Sessions : ConnectOpen(s)
    \/ \E s \in Sessions : ConnectEnable(s)
    \/ \E s \in Sessions : ConnectReturn(s)
    \/ \E s \in Sessions : Attach(s)
    \/ \E s \in Sessions : Disconnect(s)
    \/ \E s \in Sessions, op \in MotionOps, wait \in BOOLEAN, timeout \in 0..MaxTimeout :
          \E arg \in MotionArgs(op) : MotionBegin(s, op, wait, timeout, arg)
    \/ \E s \in Sessions : BackendReturn(s)
    \/ \E s \in Sessions : PollStep(s)
    \/ \E c \in Sessions : BackendComplete(c)
    \/ \E s \in Sessions : Stop(s)
    \/ \E s \in Sessions, steps \in InertialStepArgs : MoveBy(s, steps)
    \/ \E s \in Sessions, direction \in {-1, 1} : Jog(s, direction)
    \/ \E s \in Sessions, direction \in {-1, 1} : MoveToLimit(s, direction)
    \/ \E s \in Sessions : MoveToLimitReturn(s)
    \/ \E s \in Sessions : ReadPosition(s)
    \/ \E s \in Sessions, stage \in MotorStages(variant) : MotorConfigureStage(s, stage)
    \/ \E s \in Sessions : GetStatus(s)
    \/ \E s \in Sessions : Enter(s)
    \/ \E s \in Sessions : Exit(s)

Next == SessNext

Init == SessInit /\ StoreInit /\ disk.kind = "absent"

Spec == Init /\ [][Next]_vars

\* the store operations, with no session in use
StoreSpecInit == SessInit /\ variant = "KDC101" /\ StoreInit

StoreSpec == StoreSpecInit /\ [][StoreNext]_vars

\* the store as the factory, the discovery and the registries find it: a file
\* that can be read
ReadableInit == StoreSpecInit /\ disk.kind # "undecodable"

\* stages the store is given before a session is created: one of the
\* registry, and one the registry does not list
FactoryStages == {"PRM1Z8", "UNLISTED"}

\* sessions are created while the store is being configured
FactoryNext ==
    \/ \E serial \in WriterSerials, stage \in FactoryStages :
          SetChannel(serial, 1, stage, Null, Null)
    \/ \E serial \in CreateSerials, ch \in CreateChannels, backend \in BackendArgs,
          kin \in BOOLEAN, apt \in BOOLEAN :
          Create(serial, ch, backend, kin, apt)

FactorySpec == ReadableInit /\ [][FactoryNext]_vars

\* the store is configured while the attached devices are discovered
DiscoveryNext ==
    \/ \E stage \in StageArgs : SetChannel(27000001, 1, stage, Null, Null)
    \/ \E serial \in DiscoverySerials : AddUnconfigured(serial)
    \/ \E kin \in BOOLEAN, apt \in BOOLEAN, enumOk \in BOOLEAN,
          found \in SUBSET DiscoverySerials :
          ListDevices(kin, apt, enumOk, found)
    \/ \E kin \in BOOLEAN, apt \in BOOLEAN, enumOk \in BOOLEAN,
          found \in SUBSET DiscoverySerials :
          ListDevicesWithStages(kin, apt, enumOk, found)
    \/ \E call \in BagToSet(listing), s \in DiscoverySerials,
          out \in {"raise", "absent", "connected"} : StageQueryBegin(call, s, out)
    \/ \E call \in BagToSet(listing), out \in {"raise", "polling"} :
          StageQuerySettle(call, out)
    \/ \E call \in BagToSet(listing), probe \in ProbeOutcomes : StageQueryEnd(call, probe)
    \/ \E call \in BagToSet(listing) : ListDevicesWithStagesReturn(call)

DiscoverySpec == ReadableInit /\ [][DiscoveryNext]_vars

\* the registries are queried
RegistryNext ==
    \/ \E stage \in ValidateStages, type \in ValidateTypes : Validate(stage, type)
    \/ \E serial \in RegistrySerials : ResolveType(serial)
    \/ \E kin \in BOOLEAN, apt \in BOOLEAN : SelectBackend(kin, apt)

RegistrySpec == ReadableInit /\ [][RegistryNext]_vars

\* the store is loaded between writes; the file is as an earlier run left
\* it, or damaged; set_channel is called while the file can be read
LoadInit ==
    /\ SessInit /\ variant = "KDC101"
    /\ disk \in InitialDisks
    /\ gui = EmptyDoc /\ connected = {} /\ pending = NoPending /\ listing = EmptyBag
    /\ probing = EmptyBag
    /\ written = EmptyDoc /\ nops = 0
    /\ sev = StoreEvent("init", 0, 0, "None", "")

LoadNext ==
    \/ Load
    \/ \E serial \in WriterSerials, ch \in 1..2, a \in SetArgs :
          SetChannel(serial, ch, a.stage, a.role, a.lg)

LoadSpec == LoadInit /\ [][LoadNext]_vars

\* a piezo session is created, connected and driven
PiezoNext ==
    \/ \E cls \in PiezoClasses, stage \in (DOMAIN PiezoStageRange) \cup {Null} :
          PiezoCreate(cls, stage)
    \/ \E stage \in (DOMAIN PiezoStageRange) \cup {"Z825B"} : PiezoConfigureStage(stage)
    \/ \E out \in {"early", "notfound", "initfail", "opened"} : PiezoConnect(out)
    \/ \E ok \in BOOLEAN, devMax \in DeviceMaxVoltages : PiezoConnectReturn(ok, devMax)
    \/ PiezoDisconnect
    \/ \E op \in PiezoOps, v \in Voltages, ok \in BOOLEAN : PiezoSetVoltage(op, v, ok)

PiezoSpec == ReadableInit /\ [][PiezoNext]_vars

\* stage queries of single devices, while the store is configured
ProbeNext ==
    \/ \E backend \in {"kinesis", "apt"}, type \in ProbeTypes,
          failing \in FailureSets, created \in BOOLEAN, stageDef \in {Null, "Z825B"} :
          ProbeStage(backend, type, failing, created, stageDef)
    \/ \E q \in BagToSet(probing) : ProbeStageSettle(q)
    \/ \E q \in BagToSet(probing) : ProbeStageEnd(q)
    \/ \E stage \in StageArgs : SetChannel(27000001, 1, stage, Null, Null)

\* no devices.json yet when the queries start
ProbeInit == StoreSpecInit /\ disk.kind = "absent"

ProbeSpec == ProbeInit /\ [][ProbeNext]_vars

TypeOK ==
    /\ variant \in Variants
    /\ state \in [Sessions -> States]
    /\ device \in [Sessions -> 0..MaxHandles]
    /\ isInit \in [Sessions -> BOOLEAN]
    /\ hOpen \in [Handles -> BOOLEAN]
    /\ hCreator \in [Handles -> 0..NumChannels]
    /\ pos \in [Sessions -> 0..MaxPos]
    /\ moving \in [Sessions -> {"none", "moving", "homing"}]
    /\ tgt \in [Sessions -> 0..MaxPos]
    /\ pc \in [Sessions -> {"idle", "connecting", "created", "settling", "enabled", "call", "limit", "poll"}]
    /\ elapsed \in [Sessions -> 0..(MaxTimeout + 1)]
    /\ \A s \in Sessions : Len(notified[s]) <= 3
    /\ stepCount \in [Sessions -> {0}]
    /\ stageConfig \in [Sessions -> MotorStages(variant)]


\* the thread that runs a wait loop makes its next pass: time.sleep(0.1)
\* returns.  Nothing obliges the backend call (Home / MoveTo / MoveRelative,
\* the APT wrapper's home / move_*) to return, nor the hardware to finish a
\* motion: both belong to the vendor library.
LiveSpec ==
    /\ Init /\ [][Next]_vars
    /\ \A s \in Sessions : WF_vars(PollStep(s))

(***************************************************************************)
(* Properties of the controller sessions.                                  *)
(***************************************************************************)
\* C1: in every variant and from any state, each disconnect() call (the
\* first or a repeated one) returns without raising and leaves the session
\* Disconnected with its handle cleared, also when the teardown calls fail.
C1_DisconnectIdempotent ==
    ev.op = "disconnect" =>
        /\ ev.res = "None"
        /\ state[ev.s] = "disconnected"
        /\ device[ev.s] = 0

\* a disconnect() whose teardown failed has returned
C1_Witness ==
    /\ ev.op = "disconnect" /\ ev.note = "teardown_failed"
    /\ ev.res = "None" /\ state[ev.s] = "disconnected" /\ device[ev.s] = 0

\* the edges of the specified state machine, with the operation that takes them
SpecifiedEdge(from, to, op) ==
    \/ from = "disconnected" /\ to = "connecting" /\ op = "connect"
    \/ from = "connecting" /\ to \in {"connected", "error"} /\ op = "connect"
    \/ from = "connected" /\ to = "homing" /\ op = "home"
    \/ from = "connected" /\ to = "moving" /\ op \in {"move_absolute", "move_relative"}
    \/ from \in {"homing", "moving"} /\ to \in {"connected", "error"}
         /\ op \in {"home", "move_absolute", "move_relative"}
    \/ to = "disconnected" /\ op = "disconnect"
    \/ to = "connected" /\ op = "stop"

\* C2: every change of a session's state follows one of the specified
\* edges; connect() starts only from Disconnected, home/move only from
\* Connected.
C2_OnlySpecifiedEdges ==
    [][\A s \in Sessions :
          state'[s] # state[s] => SpecifiedEdge(state[s], state'[s], ev'.op)]_vars

\* C3: the disconnect() of a session that did not create its handle leaves
\* that handle open.
C3_NonOwnerKeepsHandleOpen ==
    [][\A s \in Sessions :
          (ev'.op = "disconnect" /\ ev'.s = s /\ device[s] # 0 /\ hCreator[device[s]] # s)
             => hOpen'[device[s]] = hOpen[device[s]]]_vars

\* C4: disconnect() on one channel session changes no other channel
\* session's state.
C4_DisconnectFrame ==
    [][\A s \in Sessions :
          (ev'.op = "disconnect" /\ ev'.s = s)
             => \A t \in Sessions \ {s} : state'[t] = state[t]]_vars

\* channel 2, attached to channel 1's handle, has disconnected (the shared
\* handle is closed) and channel 1 is still Connected
C4_Witness ==
    /\ variant = "KIM101"
    /\ ev.op = "disconnect" /\ ev.s = 2 /\ ev.note = "closed"
    /\ state[2] = "disconnected"
    /\ state[1] = "connected" /\ device[1] # 0 /\ ~hOpen[device[1]]

\* C5: move_relative(d, wait = True) never returns normally with
\* get_position() different from the position before plus d.
C5_MoveRelativeNeverSilent ==
    (ev.op = "move_relative" /\ ev.wait /\ ev.res \in {"True", "False"}) => ev.reached

\* C6: connect() returning True leaves the session Connected and
\* is_connected true; a failing connect() raises ConnectionError and leaves
\* the session in Error.
C6_ConnectOutcome ==
    ev.op = "connect" =>
        /\ ev.res = "True" =>
              state[ev.s] = "connected" /\ IsConnected(variant, state[ev.s])
        /\ ev.res = "ConnectionError" => state[ev.s] = "error"

\* C7: every wait = True home / move call terminates, whatever the backend
\* does, and when it ends on the timeout it raises MovementError with the
\* state in Error.
C7_WaitTerminates ==
    /\ \A s \in Sessions :
          (pc[s] \in {"call", "poll"} /\ cur[s].wait) ~> (pc[s] = "idle")
    /\ [](ev.note = "timeout" => ev.res = "MovementError" /\ state[ev.s] = "error")

\* the part of the wait that is the session's own: once the backend call has
\* returned, the call terminates even if the backend never reports
\* completion.  The wait loop does not sleep again once the timeout has
\* elapsed, and a call that ends on the timeout or on a failed read of Status
\* raises MovementError and leaves the state in Error
WaitLoopTerminates ==
    /\ \A s \in Sessions : (pc[s] = "poll") ~> (pc[s] = "idle")
    /\ [][\A s \in Sessions :
             (pc[s] = "poll" /\ pc'[s] = "poll" /\ ev'.s = s /\ ev'.note = "sleep")
             => elapsed[s] < cur[s].timeout]_vars
    /\ [](ev.note \in {"timeout", "broken"} =>
              ev.res = "MovementError" /\ state[ev.s] = "error")

\* C8: stop() returns without raising and leaves the session Connected,
\* from any state.
C8_StopAlwaysConnected ==
    ev.op = "stop" => ev.res = "None" /\ state[ev.s] = "connected"

(***************************************************************************)
(* Properties of the configuration store.                                  *)
(***************************************************************************)
\* C9: when the store holds an assigned stage X for the channel and
\* auto-detection matches a different stage, the stored stage is still X
\* after auto-detection has finished (its save, if any, having succeeded).
C9_AutoDetectKeepsAssigned ==
    [][\A serial \in StoreSerials :
          (/\ sev'.op = "connect" /\ sev'.serial = serial
           /\ sev'.matched # "" /\ sev'.res \in {"ok", "informational"}
           /\ Assigned(StageOf(LoadDeviceConfig(disk), serial, 1))
           /\ StageOf(LoadDeviceConfig(disk), serial, 1) # sev'.matched)
          => StageOf(LoadDeviceConfig(disk'), serial, 1)
                = StageOf(LoadDeviceConfig(disk), serial, 1)]_vars

\* C10: after a save that failed or was interrupted, the file is not left
\* truncated, and load() returns the previous document or the new one.
C10_FailedSaveKeepsDocument ==
    [][sev'.res \in {"open_failed", "write_failed"} =>
          /\ disk'.kind # "truncated"
          /\ LoadDeviceConfig(disk') \in {LoadDeviceConfig(disk), written'}]_vars

\* C11: a set_channel that returns True creates the serial entry if absent,
\* makes the channel's record exactly (stage, role, linked_group) as passed
\* (None where omitted), and leaves every other channel of the serial and
\* every other serial's entry as the store held them.
C11_SetChannelWholesale ==
    [][(sev'.op = "set_channel" /\ sev'.res = "ok") =>
          LET before == LoadDeviceConfig(disk)
              after == LoadDeviceConfig(disk')
              s == sev'.serial
              c == sev'.ch
          IN /\ DOMAIN after.at = (DOMAIN before.at) \cup {s}
             /\ DOMAIN after.at[s].at = (DOMAIN ChannelsOf(before, s).at) \cup {c}
             /\ after.at[s].at[c] = [stage |-> sev'.stage, role |-> sev'.role,
                                     linked_group |-> sev'.lg]
             /\ \A c2 \in (DOMAIN ChannelsOf(before, s).at) \ {c} :
                   after.at[s].at[c2] = before.at[s].at[c2]
             /\ \A s2 \in (DOMAIN before.at) \ {s} : after.at[s2] = before.at[s2]]_vars

\* a set_channel has returned True on a store that holds another serial and
\* another channel of the same serial, with the link group passed as None
C11_Witness ==
    /\ sev.op = "set_channel" /\ sev.res = "ok" /\ sev.lg = Null
    /\ disk.kind = "valid"
    /\ Cardinality(DOMAIN LoadDeviceConfig(disk).at) = 2
    /\ Cardinality(DOMAIN LoadDeviceConfig(disk).at[sev.serial].at) = 2

\* C12: whatever the file holds (nothing, a damaged document, a valid one),
\* save(load()) goes through without raising, and unless the write itself
\* failed the file is valid afterwards and load() returns what it returned
\* before, every serial, channel and field value included.
C12_SaveLoadFixedPoint ==
    [][sev'.op = "resave" =>
          /\ sev'.res \in SaveOutcomes
          /\ sev'.res = "ok" =>
                /\ disk'.kind = "valid"
                /\ LoadDeviceConfig(disk') = LoadDeviceConfig(disk)]_vars

\* the (serial, channel) keys a document holds
StoredKeys(doc) == {k \in (DOMAIN doc.at) \X (1..4) : k[2] \in DOMAIN doc.at[k[1]].at}

\* C13: no operation removes a (serial, channel) entry from the persisted
\* store: across every step whose write, if any, did not fail, the set of
\* stored keys only grows.
C13_KeysOnlyGrow ==
    [][sev'.res # "write_failed" =>
          StoredKeys(LoadDeviceConfig(disk)) \subseteq StoredKeys(LoadDeviceConfig(disk'))]_vars

\* C14: create_controller on a serial whose 2-digit prefix is not registered
\* raises ConfigurationError and returns no session, whatever the channel,
\* the backend argument and the availability of the backends.
C14_UnknownPrefixRaises ==
    (sev.op = "create_controller" /\ Prefix(sev.serial) \notin DOMAIN PrefixToController)
        => (sev.res = "ConfigurationError" /\ sev.cls = Null /\ sev.state = Null)

\* the call with no backend argument while no backend is available
C14_Witness ==
    /\ sev.op = "create_controller"
    /\ Prefix(sev.serial) \notin DOMAIN PrefixToController
    /\ sev.backend = Null /\ ~sev.kin /\ ~sev.apt
    /\ sev.res = "ConfigurationError"

\* the backends that implement a device type: the Kinesis layer has a class
\* for every registered type, the legacy APT layer none for the brushless and
\* the inertial kind
HasImplementation(backend, type) ==
    backend = "kinesis" \/ MotorType[type] \notin {"brushless", "inertial"}

\* C15: create_controller raises ConfigurationError and returns no session
\* whenever the backend it settled on has no implementation for the device
\* type; on the APT backend, chosen by argument or by the probe, that is so
\* for every KBD101 and every KIM101 serial.
C15_UnimplementedTypeRaises ==
    sev.op = "create_controller" =>
       LET type == GetControllerType(sev.serial)
       IN /\ (type # Null /\ sev.resolved # Null /\ ~HasImplementation(sev.resolved, type))
                => (sev.res = "ConfigurationError" /\ sev.cls = Null /\ sev.state = Null)
          /\ (/\ type \in {"KBD101", "KIM101"}
              /\ sev.backend = "apt" \/ (sev.backend = Null /\ ~sev.kin /\ sev.apt))
                => (sev.res = "ConfigurationError" /\ sev.cls = Null /\ sev.state = Null)

\* a brushless serial, the APT backend found by the probe
C15_Witness ==
    /\ sev.op = "create_controller"
    /\ GetControllerType(sev.serial) = "KBD101"
    /\ sev.backend = Null /\ ~sev.kin /\ sev.apt
    /\ sev.resolved = "apt"
    /\ sev.res = "ConfigurationError"

\* the stage the store assigns to the channel a create_controller call named
AssignedStage == StageOf(LoadDeviceConfig(disk), sev.serial, sev.ch)

\* the assigned stage does not fit the device: the registry does not list it,
\* or lists it for other device types
Mismatch(stage, type) ==
    \/ stage \notin DOMAIN CompatibleControllers
    \/ type \notin CompatibleControllers[stage]

\* C16: when the store assigns (serial, channel) a stage incompatible with
\* the device type, or one the registry does not know, create_controller
\* still returns a session and raises no exception: the call ends as it
\* would with no stage assigned, which on a backend that implements the type
\* is with a session in Disconnected; the mismatch shows as the warning.
C16_MismatchOnlyWarns ==
    (/\ sev.op = "create_controller"
     /\ Assigned(AssignedStage)
     /\ Mismatch(AssignedStage, GetControllerType(sev.serial)))
        => LET type == GetControllerType(sev.serial)
               bare == CreateController(EmptyDoc,
                          CreateCall(sev.serial, sev.ch, sev.backend, sev.kin, sev.apt))
           IN /\ sev.res = bare.res /\ sev.cls = bare.cls
              /\ (type # Null /\ sev.resolved # Null /\ HasImplementation(sev.resolved, type))
                    => (/\ sev.res = "ok" /\ sev.cls # Null
                        /\ sev.state = "DISCONNECTED" /\ sev.warned)

\* a rotation mount assigned to a channel of the inertial controller
C16_Witness ==
    /\ sev.op = "create_controller"
    /\ GetControllerType(sev.serial) = "KIM101"
    /\ AssignedStage = "PRM1Z8"
    /\ sev.res = "ok" /\ sev.cls = "KIM101Controller" /\ sev.warned

\* C17: for a serial with a registered prefix, a channel of its device and a
\* backend that implements its type, create_controller on a (serial, channel)
\* the store has no entry for raises nothing and returns a session in
\* Disconnected with no stage bound (and prints no warning).
C17_NoEntryStillCreates ==
    (/\ sev.op = "create_controller"
     /\ GetControllerType(sev.serial) # Null
     /\ sev.ch \in 1..GetChannelCount(GetControllerType(sev.serial))
     /\ sev.resolved # Null
     /\ HasImplementation(sev.resolved, GetControllerType(sev.serial))
     /\ sev.ch \notin DOMAIN ChannelsOf(LoadDeviceConfig(disk), sev.serial).at)
        => (/\ sev.res = "ok" /\ sev.cls # Null /\ sev.state = "DISCONNECTED"
            /\ sev.stage = Null /\ ~sev.warned)

\* a serial of prefix 27 the store does not know, created on the probed backend
C17_Witness ==
    /\ sev.op = "create_controller"
    /\ Prefix(sev.serial) = 27 /\ sev.ch = 1
    /\ sev.serial \notin DOMAIN LoadDeviceConfig(disk).at
    /\ sev.backend = Null
    /\ sev.res = "ok" /\ sev.cls = "KDC101Controller" /\ sev.stage = Null

(***************************************************************************)
(* Properties of the inertial session.                                     *)
(***************************************************************************)
\* C18: on an inertial session home(), in any state and with any wait and
\* timeout, returns False, leaves the connection state and the step counter
\* unchanged and gives the backend no motion command; a command that seeks
\* the limit comes only from move_to_limit.
C18_InertialHomeInert ==
    [][/\ (variant = "KIM101" /\ ev'.op = "home")
            => /\ ev'.res = "False" /\ ev'.sent = 0
               /\ UNCHANGED <<state, stepCount, device, hOpen, pos, moving, tgt, pc, cur>>
       /\ ev'.note = "limit" => ev'.op = "move_to_limit"]_vars

\* home(wait = True) on a connected inertial session
C18_Witness ==
    /\ variant = "KIM101" /\ ev.op = "home" /\ ev.wait /\ ev.res = "False"
    /\ state[ev.s] = "connected" /\ device[ev.s] # 0 /\ hOpen[device[ev.s]]

\* the sign of a distance
Sign(d) == IF d > 0 THEN 1 ELSE IF d < 0 THEN -1 ELSE 0

\* C19: on an inertial session move_relative(d) commands the backend to move
\* floor(|d| / step_size) steps in direction sign(d) and returns the outcome
\* of that step command: it returns True with exactly those steps commanded,
\* or False with none.
C19_MoveRelativeSteps ==
    [][\A s \in Sessions, d \in InertialDistances, wait \in BOOLEAN, timeout \in 0..MaxTimeout :
          (variant = "KIM101" /\ MotionBegin(s, "move_relative", wait, timeout, d))
             => LET n == (IF d < 0 THEN -d ELSE d) \div StepSize
                IN \/ ev'.res = "True" /\ ev'.sent = Sign(d) * n
                   \/ ev'.res = "False" /\ ev'.sent = 0]_vars

\* C20: on an inertial session get_position() is the net number of steps
\* moved since the last counter reset times the bound stage's step_size (the
\* raw count when no stage is bound): a successful step move of n steps
\* (jog, move_by, move_relative) changes the value returned by n x step_size.
C20_PositionFollowsSteps ==
    [][(variant = "KIM101" /\ ev'.op \in {"jog", "move_by", "move_relative"} /\ ev'.res = "True")
          => LET s == ev'.s
             IN InertialPosition(stepCount'[s], stageConfig'[s]) =
                   InertialPosition(stepCount[s], stageConfig[s])
                     + ev'.sent * (IF stageConfig[s] # Null THEN StepSize ELSE 1)]_vars

(***************************************************************************)
(* Properties of the status snapshot, the observer and cancellation.       *)
(***************************************************************************)
\* C21: for every variant and in every state, also when the backend's
\* status read fails, the snapshot get_status() returns holds the
\* connectivity flag and the variant's primary quantity: the position for a
\* motor or inertial session, the voltage for a piezo session.
C21_StatusHasFlagAndQuantity ==
    ev.op = "get_status" =>
        /\ "connected" \in ev.keys
        /\ (IF IsPiezo(variant) THEN "voltage" ELSE "position") \in ev.keys

\* C22: with a state observer registered, every state transition of the
\* session calls it exactly once, after the state field is updated and with
\* the new state as argument, and it is called for nothing else: the states
\* delivered in a step are the states the session passes into in that step,
\* so the sequence delivered is the sequence of states the session goes
\* through.
C22_ObserverFollowsState ==
    [][\A s \in Sessions :
          notified'[s] = IF state'[s] # state[s] THEN <<state'[s]>> ELSE <<>>]_vars


(***************************************************************************)
(* C23: a stop() that went through while a wait = True home or move call   *)
(* of the same session was blocked makes that call return True, not by its *)
(* timeout and not by an exception, and leaves the session Connected.      *)
(* Stated for the step that ends the blocked call right after the stop.    *)
(***************************************************************************)
C23_StopReleasesWaiter ==
    [][\A s \in Sessions :
          ( /\ ev.op = "stop" /\ ev.s = s /\ ev.note = "stopped"
            /\ pc[s] # "idle" /\ cur[s].wait
            /\ pc'[s] = "idle" /\ ev'.s = s /\ ev'.op = cur[s].op )
          => /\ ev'.res = "True"
             /\ state'[s] = "connected"]_vars


(***************************************************************************)
(* C24: leaving the with-block of a session, after a body that returned or *)
(* one that raised, runs __exit__, and every __exit__ step ends with the   *)
(* session Disconnected and holding no backend handle.                     *)
(***************************************************************************)
C24_ExitDisconnects ==
    [][\A s \in Sessions :
          Exit(s) => /\ state'[s] = "disconnected"
                     /\ device'[s] = 0
                     /\ ev'.res = "None"]_vars

\* a with-block was left while a call of its body had failed or was still
\* driving the stage: the handle was torn down and the session is Disconnected
C24_Witness ==
    /\ ev.op = "disconnect" /\ ev.note = "closed"
    /\ moving[ev.s] # "none" /\ pc[ev.s] = "idle"
    /\ state[ev.s] = "disconnected" /\ device[ev.s] = 0


(***************************************************************************)
(* Properties of discovery.                                                *)
(***************************************************************************)
\* C25: every device discover_devices() returns, under either backend,
\* carries configured = is_device_configured(serial): true exactly when the
\* store holds a channel of that serial with an assigned stage.
C25_ConfiguredIffStageAssigned ==
    (sev.op = "discover_devices" /\ sev.res = "list") =>
        \A s \in DOMAIN sev.devices :
            sev.devices[s].configured = IsDeviceConfigured(disk, s)


\* the entry of a device discovered for the first time: every channel of its
\* type with stage, role and link group unset
UnassignedEntry(serial) ==
    [keys |-> [c \in 1..GetChannelCount(GetControllerType(serial)) |-> c],
     at |-> [c \in 1..GetChannelCount(GetControllerType(serial)) |->
                [stage |-> Null, role |-> Null, linked_group |-> Null]]]

\* C26: once discovery has listed a device, the store holds an entry of it:
\* the entry it had before, unchanged, or else a new one with one unassigned
\* channel record per channel of the device's type.
C26_DiscoveryAddsEntry ==
    [][(sev'.op = "discover_devices" /\ sev'.res = "list") =>
          \A s \in DOMAIN sev'.devices :
              /\ s \in DOMAIN LoadDeviceConfig(disk').at
              /\ LoadDeviceConfig(disk').at[s] =
                    IF s \in DOMAIN LoadDeviceConfig(disk).at
                    THEN LoadDeviceConfig(disk).at[s] ELSE UnassignedEntry(s)]_vars


LinkGroups == {Null, "g1", "g2"}

\* the members of a list
Members(list) == {list[i] : i \in DOMAIN list}

\* C28: after a set_device_channel_config(serial, ch, stage, role, G0) that
\* was saved, get_linked_channels(serial, G) does not list ch for any link
\* group G other than G0, whatever link group ch had before.
C28_OnlyInGivenGroup ==
    (sev.op = "set_channel" /\ sev.res = "ok") =>
        \A G \in LinkGroups \ {sev.lg} :
            sev.ch \notin Members(GetLinkedChannels(disk, sev.serial, G))

\* channel 1 was set with no link group while channel 2 of the same device
\* is in group g1: g1 lists channel 2 only
C28_Witness ==
    /\ sev.op = "set_channel" /\ sev.res = "ok" /\ sev.ch = 1 /\ sev.lg = Null
    /\ GetLinkedChannels(disk, sev.serial, "g1") = <<2>>
    /\ 1 \in Members(GetLinkedChannels(disk, sev.serial, Null))


(***************************************************************************)
(* Properties of the registries.                                           *)
(***************************************************************************)
\* the stage registry lists the stage and the type among its compatible types
Compatible(stage, type) ==
    /\ stage \in Members(STAGES)
    /\ type \in Members(CompatibleList[stage])

\* C29: validate_stage_compatibility(stage, type) returns a pair, never
\* raises; its flag is true exactly when the registry lists the stage with
\* the type among its compatible types; for a listed stage of other types
\* the message names every compatible controller type.
C29_ValidateVerdict ==
    sev.op = "validate" =>
        /\ sev.res = "tuple"
        /\ sev.valid <=> Compatible(sev.stage, sev.type)
        /\ (sev.stage \in Members(STAGES) /\ ~sev.valid) =>
              \A c \in Members(CompatibleList[sev.stage]) : c \in Members(sev.message)

\* a stage of two compatible types was validated against a third type
C29_Witness ==
    /\ sev.op = "validate" /\ sev.stage = "PRM1Z8" /\ sev.type = "KIM101"
    /\ ~sev.valid
    /\ {"KDC101", "TDC001"} \subseteq Members(sev.message)


\* the decimal digits of a non-negative integer, most significant first
RECURSIVE Digits(_)
Digits(n) == IF n < 10 THEN <<n>> ELSE Append(Digits(n \div 10), n % 10)

\* the number written by the first two decimal digits (by the only digit of
\* a one-digit number)
FirstTwoDigits(n) ==
    IF Len(Digits(n)) = 1 THEN Digits(n)[1] ELSE 10 * Digits(n)[1] + Digits(n)[2]

\* C30: get_controller_type(serial) never raises and is a function of the
\* serial's first two decimal digits: the one type registered for that
\* prefix, no type when the prefix is not registered; serials that share
\* the prefix resolve alike.
C30_TypeFromPrefix ==
    sev.op = "get_controller_type" =>
        /\ sev.res = IF FirstTwoDigits(sev.serial) \in DOMAIN PrefixToController
                     THEN PrefixToController[FirstTwoDigits(sev.serial)] ELSE Null
        /\ \A other \in RegistrySerials :
              FirstTwoDigits(other) = FirstTwoDigits(sev.serial)
                  => GetControllerType(other) = sev.res

\* a four-digit serial of prefix 27 resolved to the type of the eight-digit ones
C30_Witness ==
    /\ sev.op = "get_controller_type" /\ sev.serial = 2712 /\ sev.res = "KDC101"
    /\ GetControllerType(27999999) = "KDC101"


\* C31: get_available_backend probes Kinesis first and APT only when Kinesis
\* is unavailable; it returns "kinesis" whenever Kinesis is available,
\* "apt" exactly when only APT is, and raises RuntimeError exactly when
\* neither is.
C31_BackendPriority ==
    sev.op = "get_available_backend" =>
        /\ sev.kin => sev.res = "kinesis"
        /\ sev.res = "apt" <=> (~sev.kin /\ sev.apt)
        /\ sev.res = "RuntimeError" <=> (~sev.kin /\ ~sev.apt)
        /\ sev.probes[1] = "kinesis"
        /\ "apt" \in Members(sev.probes) <=> ~sev.kin

\* both backends are available: Kinesis is chosen and APT is not probed
C31_Witness ==
    /\ sev.op = "get_available_backend" /\ sev.kin /\ sev.apt
    /\ sev.res = "kinesis" /\ sev.probes = <<"kinesis">>


(***************************************************************************)
(* Properties of load_device_config.                                       *)
(***************************************************************************)
\* C32: load_device_config() never raises: it returns the stored document
\* when the file is valid and the empty default when the file is absent or
\* corrupt.
C32_LoadNeverRaises ==
    sev.op = "load" =>
        /\ sev.res = "dict"
        /\ sev.config = IF disk.kind = "valid" THEN JsonLoad(disk.doc) ELSE EmptyDoc


(***************************************************************************)
(* Properties of the session state while a motion is in flight.            *)
(***************************************************************************)
\* C33: after home / move_absolute / move_relative with wait = False, while
\* the backend still reports the motion in progress, the session has not
\* been set back to Connected and the observer has not been told Connected.
C33_BusyUntilComplete ==
    \A s \in Sessions :
        ( /\ ev.s = s /\ ev.op \in MotionOps /\ ~ev.wait
          /\ ev.res = "True" /\ ~IsPiezo(variant) /\ variant # "KIM101"
          /\ moving[s] # "none" )
        => /\ state[s] # "connected"
           /\ \A i \in DOMAIN notified[s] : notified[s][i] # "connected"


\* C34: between two operations a session holds a backend handle exactly
\* when is_connected is true, in the motor and the piezo variants alike; a
\* session in Disconnected or Error holds no handle and is not connected.
C34_HandleIffConnected ==
    \A s \in Sess(variant) :
        pc[s] = "idle" =>
            /\ device[s] # 0 <=> IsConnected(variant, state[s])
            /\ state[s] \in {"disconnected", "error"} =>
                  device[s] = 0 /\ ~IsConnected(variant, state[s])


\* C35: when auto-detection persists a detected stage for channel 1 of a
\* serial, the stored document afterwards is the document stored right
\* before the write with only that channel's stage field replaced: its role
\* and link group, the serial's other channels and the other serials are as
\* the store held them, also where they were written after the discovery.
C35_AutoDetectTouchesStageOnly ==
    [][(sev'.op = "connect" /\ sev'.res = "ok" /\ sev'.matched # "") =>
          LET before == LoadDeviceConfig(disk)
              chans == ChannelsOf(before, sev'.serial)
              rec == IF 1 \in DOMAIN chans.at THEN chans.at[1] ELSE NoRecord
          IN LoadDeviceConfig(disk') =
                Put(before, sev'.serial, Put(chans, 1, PutField(rec, "stage", sev'.matched)))]_vars


\* C36: a session returned by create_controller has no stage bound whose
\* compatible controller types exclude the device's type: an incompatible
\* assigned stage is left unbound.
C36_NoIncompatibleStageBound ==
    (sev.op = "create_controller" /\ sev.res = "ok" /\ sev.stage # Null) =>
        GetControllerType(sev.serial) \in CompatibleControllers[sev.stage]


(***************************************************************************)
(* Properties of the piezo session.                                        *)
(***************************************************************************)
\* C37: for a piezo session created with a bound stage, every voltage that
\* set_voltage / set_voltage_safe / zero send to the backend lies within the
\* stage's voltage_range, before and after connect() and under both
\* backends.
C37_VoltageWithinStageRange ==
    (piezo.op \in PiezoOps /\ piezo.res = "True" /\ piezo.bound # 0) =>
        /\ 0 <= piezo.sent
        /\ piezo.sent <= piezo.bound


(***************************************************************************)
(* Properties of the stage query.                                          *)
(***************************************************************************)
\* C38: a stage query that has returned issued backend calls only for servo
\* and brushless types under Kinesis, and once its Connect has gone through
\* it ended with Disconnect issued on the probe handle, whatever call failed
\* afterwards.
C38_ProbeAlwaysDisconnects ==
    (sev.op = "get_connected_stage_info" /\ sev.res # "pending") =>
        /\ sev.calls # << >> => (sev.backend = "kinesis" /\ sev.type \in MotorControllers)
        /\ (Len(sev.calls) >= 3 /\ sev.failing \cap {1, 2, 3} = {}) =>
              sev.calls[Len(sev.calls)] = "Disconnect"


(***************************************************************************)
(* Shape of the stored channel records.                                    *)
(***************************************************************************)
\* C39: whatever writers have run, every channel entry of the stored
\* document is a record with exactly the fields stage, role and
\* linked_group.
C39_ChannelRecordShape ==
    \A serial \in DOMAIN LoadDeviceConfig(disk).at :
        \A ch \in DOMAIN LoadDeviceConfig(disk).at[serial].at :
            DOMAIN LoadDeviceConfig(disk).at[serial].at[ch] = {"stage", "role", "linked_group"}


(***************************************************************************)
(* C40: disconnect() on a session that is Disconnected and holds no handle *)
(* changes nothing: the state and the handle stay as they are, no backend  *)
(* handle is touched and the state observer receives nothing.              *)
(***************************************************************************)
C40_DisconnectNoOp ==
    [][\A s \in Sessions :
          (Disconnect(s) /\ state[s] = "disconnected" /\ device[s] = 0) =>
              /\ state'[s] = "disconnected"
              /\ device'[s] = 0
              /\ hOpen' = hOpen
              /\ notified'[s] = <<>>]_vars

=============================================================================
